---- MODULE Spec2Model ----
(***************************************************************************)
(* A model of the Flow provider adapter of grok2api:                       *)
(*   - FlowClient._get_video_model_key, the pure model-key selector;       *)
(*   - the FlowClient network operations, one step per network round trip  *)
(*     (every "await asyncio.to_thread(curl_requests...)") and one step    *)
(*     per "await asyncio.sleep";                                          *)
(*   - FlowClient.get_or_create_project run by concurrent orchestrations   *)
(*     against one upstream project list;                                  *)
(*   - ImageUploadCache and the media-id resolution of videos.py run by    *)
(*     concurrent tasks, one step per stretch of code between suspensions; *)
(*   - ConfigManager: credential resolution and concurrent saves;          *)
(*   - the request handlers of videos.py, one step per awaited call;       *)
(*   - the MIME type FlowClient.download_image / download_video return;    *)
(*   - the admin session store, one step per statement on _sessions.       *)
(* Python's None is modelled by the value None, exceptions by records      *)
(* [exc, code, status].                                                    *)
(***************************************************************************)
EXTENDS Integers, Sequences, FiniteSets, TLC

VARIABLES
    \* ---- selector (SpecSelector) ----
    sel_args,       \* the arguments of one _get_video_model_key call
    sel_ret,        \* its outcome: "unset", a key, or "UNSUPPORTED_MODEL"
    \* ---- one FlowClient operation in flight (SpecClient) ----
    op,             \* the operation called, "none" before the call
    model,          \* the model argument of a video generation call
    aspect_ratio,   \* the aspect_ratio argument of a video generation call
    video_model_key,\* the videoModelKey put into the request body
    pc,             \* "idle", "attempt", "sleep", "done"
    attempt,        \* the loop variable of "for attempt in range(MAX_RETRY)"
    wait_time,      \* the argument of the pending asyncio.sleep
    responses,      \* the upstream outcomes received, one per network attempt
    sleeps,         \* the durations slept, in order
    result,         \* what reaches the caller
    \* ---- get_or_create_project by concurrent orchestrations (SpecProject) ----
    projects,       \* the upstream project list, in the order it is returned
    now,            \* the upstream clock that stamps creationTime
    gpc,            \* per orchestration: "idle", "list", "create", "done"
    listed,         \* per orchestration: the outcome of its list round trip
    latest,         \* per orchestration: what get_latest_project returned
    creates,        \* per orchestration: create round trips issued
    gresult,        \* per orchestration: what get_or_create_project gave
    \* ---- the image upload cache and its callers (SpecCache) ----
    storage_ok,     \* whether storage_manager.get_storage() answers
    file,           \* the content of image_upload_cache.json on disk
    initialized,    \* ImageUploadCache._initialized
    cache_file,     \* whether ImageUploadCache._cache_file is set (not None)
    cache,          \* ImageUploadCache._cache, digest -> media id
    lock,           \* the task holding ImageUploadCache._lock, or NoTask
    waiters,        \* the tasks waiting for the lock, first come first
    tpc,            \* per task: where its media-id resolution stands
    turl,           \* per task: the url being resolved
    cached_id,      \* per task: what image_upload_cache.get returned
    media_id,       \* per task: what FlowClient.upload_image returned
    prev_id,        \* per task: what the map held for the url before its set
    tret,           \* per task: what the resolution returned
    tdl,            \* per task: download calls made by its resolution
    tul,            \* per task: upload calls made by its resolution
    tprior,         \* per task: first_stored of its url when it started
    uploads,        \* per url: uploads that succeeded
    uploaded_for,   \* per id: the url whose upload returned it, "none" if none
    first_stored,   \* per url: the id of the first resolution that stored one
    last_stored,    \* per url: the id of the set that returned last
    next_id,        \* the id the upstream gives to the next upload
    calls,          \* resolutions started so far
    \* ---- credential resolution (SpecCredential) ----
    flow_config,    \* ConfigManager.flow_config: session_token, csrf_token
    environ,        \* the process environment: FLOW_SESSION_TOKEN, FLOW_CSRF_TOKEN
    cred_kind,      \* which credential is asked for: "session" or "csrf"
    cred_ret,       \* what the call gave: a string or an exception
    \* ---- one API request (SpecEndpoint) ----
    endpoint,       \* "video", "status", "credits", "image"; "none" before
    request,        \* the request body: attached image roles, model, aspect
    epc,            \* where the handler is: "idle", an awaited call, "done"
    provider_calls, \* the FlowClient calls the handler has issued, in order
    op_result,      \* what check_video_status returned, <<>> before
    r2_set,         \* the R2_* properties of Env that are set and non-empty
    r2_url,         \* what _upload_to_r2 returned, "None" when nothing
    response,       \* the HTTP response of the request, <<>> while running
    \* ---- one media download (SpecDownload) ----
    dl_kind,        \* "image" or "video"; "none" before the call
    dl_header,      \* the content-type header of the response, or NoHeader
    dl_body,        \* the bytes of the response body
    dl_mime,        \* the MIME type the call returned, <<>> before
    \* ---- saving the settings (SpecConfig) ----
    cfg_file,       \* data/setting.toml: its [flow] and [global] sections
    storage_set,    \* whether set_storage has given the manager a backend
    spc,            \* each save call: "idle", "reading", "writing",
                    \* "reloading", "returned"
    supd,           \* each save call's updates
    ssnap,          \* each save call's copy of the stored configuration
    \* ---- admin sessions (SpecAdmin) ----
    global_config,  \* ConfigManager.global_config: the admin credentials
    sessions,       \* _sessions: token -> expiry time
    wall,           \* what datetime.now() reads, in hours
    minted,         \* tokens secrets.token_urlsafe has produced so far
    login_time,     \* per token: the time of the login that issued it
    logged_out,     \* the tokens admin_logout has removed
    found_expired,  \* the tokens verify_admin_session has removed
    vpc,            \* per thread: where its request stands
    vop,            \* per thread: the endpoint, "logout" or "settings"
    vauth,          \* per thread: the Authorization header of its request
    vlate,          \* per thread: whether the token was already revoked
                    \* when the verification began
    admin_ret       \* the last call that ended: which one, its header or
                    \* token, what it gave, and whether it began late

selVars    == <<sel_args, sel_ret>>
clientVars == <<op, model, aspect_ratio, video_model_key, pc, attempt,
                wait_time, responses, sleeps, result>>
projVars   == <<projects, now, gpc, listed, latest, creates, gresult>>
cacheVars  == <<storage_ok, file, initialized, cache_file, cache, lock,
                waiters, tpc, turl, cached_id, media_id, prev_id, tret, tdl,
                tul, tprior, uploads, uploaded_for, first_stored,
                last_stored, next_id, calls>>
credVars   == <<flow_config, environ, cred_kind, cred_ret>>
endVars    == <<endpoint, request, epc, provider_calls, op_result,
                r2_set, r2_url, response>>
dlVars     == <<dl_kind, dl_header, dl_body, dl_mime>>
cfgVars    == <<cfg_file, storage_set, spc, supd, ssnap>>
admVars    == <<global_config, sessions, wall, minted, login_time,
                logged_out, found_expired, vpc, vop, vauth, vlate,
                admin_ret>>
extVars    == <<dlVars, cfgVars, admVars>>
oldVars    == <<selVars, clientVars, projVars, cacheVars, credVars, endVars>>
vars       == <<oldVars, extVars>>

\* The credential component at rest, for the specifications that do not run it.
CredAtRest ==
    /\ flow_config = <<>> /\ environ = <<>>
    /\ cred_kind = "none" /\ cred_ret = <<>>

\* The download component at rest.
DownloadAtRest ==
    /\ dl_kind = "none" /\ dl_header = <<>> /\ dl_body = <<>> /\ dl_mime = <<>>

\* The settings file at rest.
ConfigAtRest ==
    /\ cfg_file = <<>> /\ storage_set = FALSE
    /\ spc = <<>> /\ supd = <<>> /\ ssnap = <<>>

\* The admin sessions at rest.
AdminAtRest ==
    /\ global_config = <<>> /\ sessions = <<>> /\ wall = 0 /\ minted = 0
    /\ login_time = <<>> /\ logged_out = {} /\ found_expired = {}
    /\ vpc = <<>> /\ vop = <<>> /\ vauth = <<>>
    /\ vlate = <<>> /\ admin_ret = <<>>

\* The later components at rest, for the specifications that run none of them.
ExtAtRest == DownloadAtRest /\ ConfigAtRest /\ AdminAtRest

\* The request handler at rest.
EndpointAtRest ==
    /\ endpoint = "none" /\ request = <<>> /\ epc = "idle"
    /\ provider_calls = <<>> /\ op_result = <<>>
    /\ r2_set = {} /\ r2_url = "None" /\ response = <<>>

\* The selector and the project component at rest.
SelAtRest ==
    /\ sel_args = [model |-> "veo-3_1_fast", aspect_ratio |-> "VIDEO_ASPECT_RATIO_LANDSCAPE",
                   has_start_image |-> FALSE, has_end_image |-> FALSE,
                   has_reference_images |-> FALSE]
    /\ sel_ret = "unset"

ProjAtRest ==
    /\ projects = <<>> /\ now = 0
    /\ gpc = <<>> /\ listed = <<>> /\ latest = <<>>
    /\ creates = <<>> /\ gresult = <<>>

\* The cache component at rest, for the specifications that do not run it.
CacheAtRest ==
    /\ storage_ok = TRUE /\ file = <<>> /\ initialized = FALSE
    /\ cache_file = FALSE /\ cache = <<>> /\ lock = 0 /\ waiters = <<>>
    /\ tpc = <<>> /\ turl = <<>> /\ cached_id = <<>> /\ media_id = <<>>
    /\ prev_id = <<>>
    /\ tret = <<>> /\ tdl = <<>> /\ tul = <<>> /\ tprior = <<>>
    /\ uploads = <<>> /\ first_stored = <<>> /\ last_stored = <<>>
    /\ uploaded_for = <<>>
    /\ next_id = 0 /\ calls = 0

None == "None"

(***************************************************************************)
(* Program constants.                                                      *)
(***************************************************************************)
MAX_RETRY == 3
RETRY_DELAY == 5

LANDSCAPE == "VIDEO_ASPECT_RATIO_LANDSCAPE"
PORTRAIT  == "VIDEO_ASPECT_RATIO_PORTRAIT"

\* The three documented tiers, and a string that is none of them.
Tiers  == {"veo-3_1_fast", "veo-3_1_relaxed", "veo-3_1_quality"}
Models == Tiers \cup {"veo-other"}
\* The two documented orientations, and a string that is neither.
AspectRatios == {LANDSCAPE, PORTRAIT, "VIDEO_ASPECT_RATIO_SQUARE"}

UNSUPPORTED_MODEL == "UNSUPPORTED_MODEL"

(***************************************************************************)
(* FlowClient._get_video_model_key                                         *)
(***************************************************************************)
\* Faulty variant: the portrait keys of the text path swapped in for landscape.
TextKeySwapped(m, is_landscape) ==
    IF m = "veo-3_1_fast"
    THEN IF is_landscape THEN "veo_3_1_t2v_fast_portrait_ultra"
                         ELSE "veo_3_1_t2v_fast_ultra"
    ELSE IF m = "veo-3_1_relaxed"
    THEN IF is_landscape THEN "veo_3_1_t2v_fast_portrait_ultra_relaxed"
                         ELSE "veo_3_1_t2v_fast_ultra_relaxed"
    ELSE "veo_3_1_t2v"

\* client.py 103-117: the text-to-video branch.
TextKey(m, is_landscape) ==
    IF m = "veo-3_1_fast"
    THEN IF is_landscape THEN "veo_3_1_t2v_fast_ultra"
                         ELSE "veo_3_1_t2v_fast_portrait_ultra"
    ELSE IF m = "veo-3_1_relaxed"
    THEN IF is_landscape THEN "veo_3_1_t2v_fast_ultra_relaxed"
                         ELSE "veo_3_1_t2v_fast_portrait_ultra_relaxed"
    ELSE "veo_3_1_t2v"

\* Faulty variant: the reference branch without the quality rejection.
ReferenceKeyAcceptsQuality(m) ==
    IF m = "veo-3_1_relaxed" THEN "veo_3_0_r2v_fast_ultra_relaxed"
    ELSE "veo_3_0_r2v_fast_ultra"

\* client.py 56-63: the reference-images branch (raises for quality).
ReferenceKey(m) ==
    IF m = "veo-3_1_quality" THEN UNSUPPORTED_MODEL
    ELSE IF m = "veo-3_1_relaxed" THEN "veo_3_0_r2v_fast_ultra_relaxed"
    ELSE "veo_3_0_r2v_fast_ultra"

\* Faulty variant: a start+end table with no entry for the quality tier.
StartEndKeyNoQuality(m, is_landscape) ==
    IF m = "veo-3_1_fast"
    THEN IF is_landscape THEN "veo_3_1_i2v_s_fast_ultra_fl"
                         ELSE "veo_3_1_i2v_s_fast_portrait_ultra_fl"
    ELSE IF m = "veo-3_1_relaxed"
    THEN IF is_landscape THEN "veo_3_1_i2v_s_fast_ultra_fl_relaxed"
                         ELSE "veo_3_1_i2v_s_fast_portrait_ultra_fl_relaxed"
    ELSE UNSUPPORTED_MODEL

\* client.py 65-82: the start+end-frame branch.
StartEndKey(m, is_landscape) ==
    IF m = "veo-3_1_fast"
    THEN IF is_landscape THEN "veo_3_1_i2v_s_fast_ultra_fl"
                         ELSE "veo_3_1_i2v_s_fast_portrait_ultra_fl"
    ELSE IF m = "veo-3_1_relaxed"
    THEN IF is_landscape THEN "veo_3_1_i2v_s_fast_ultra_fl_relaxed"
                         ELSE "veo_3_1_i2v_s_fast_portrait_ultra_fl_relaxed"
    ELSE IF is_landscape THEN "veo_3_1_i2v_s_fl"
                         ELSE "veo_3_1_i2v_s_portrait_fl"

\* Faulty variant: a start table whose fast tier ignores the orientation.
StartKeySharedFast(m, is_landscape) ==
    IF m = "veo-3_1_fast" THEN "veo_3_1_i2v_s_fast_ultra"
    ELSE IF m = "veo-3_1_relaxed"
    THEN IF is_landscape THEN "veo_3_1_i2v_s_fast_ultra_relaxed"
                         ELSE "veo_3_1_i2v_s_fast_portrait_relaxed"
    ELSE IF is_landscape THEN "veo_3_1_i2v_s"
                         ELSE "veo_3_1_i2v_s_portrait"

\* client.py 84-101: the single-start-frame branch.
StartKey(m, is_landscape) ==
    IF m = "veo-3_1_fast"
    THEN IF is_landscape THEN "veo_3_1_i2v_s_fast_ultra"
                         ELSE "veo_3_1_i2v_s_fast_portrait"
    ELSE IF m = "veo-3_1_relaxed"
    THEN IF is_landscape THEN "veo_3_1_i2v_s_fast_ultra_relaxed"
                         ELSE "veo_3_1_i2v_s_fast_portrait_relaxed"
    ELSE IF is_landscape THEN "veo_3_1_i2v_s"
                         ELSE "veo_3_1_i2v_s_portrait"

\* Faulty variant: the frame branches tested before the reference branch.
get_video_model_key_frames_first(m, ar, has_start_image, has_end_image, has_reference_images) ==
    LET is_landscape == (ar = LANDSCAPE) IN
    IF has_start_image /\ has_end_image THEN StartEndKey(m, is_landscape)
    ELSE IF has_start_image THEN StartKey(m, is_landscape)
    ELSE IF has_reference_images THEN ReferenceKey(m)
    ELSE TextKey(m, is_landscape)

\* The whole selector; the result is a key or UNSUPPORTED_MODEL (the raise).
get_video_model_key(m, ar, has_start_image, has_end_image, has_reference_images) ==
    LET is_landscape == (ar = LANDSCAPE) IN
    IF has_reference_images THEN ReferenceKey(m)
    ELSE IF has_start_image /\ has_end_image THEN StartEndKey(m, is_landscape)
    ELSE IF has_start_image THEN StartKey(m, is_landscape)
    ELSE TextKey(m, is_landscape)

SelArgs == [model : Models, aspect_ratio : AspectRatios,
            has_start_image : BOOLEAN, has_end_image : BOOLEAN,
            has_reference_images : BOOLEAN]

SelInit == sel_args \in SelArgs /\ sel_ret = "unset"

\* One call of the selector on the drawn arguments.
Select ==
    /\ sel_ret = "unset"
    /\ sel_ret' = get_video_model_key(sel_args.model, sel_args.aspect_ratio,
                                      sel_args.has_start_image,
                                      sel_args.has_end_image,
                                      sel_args.has_reference_images)
    /\ UNCHANGED <<sel_args, clientVars, projVars, cacheVars, credVars, endVars, extVars>>

(***************************************************************************)
(* The upstream's answers.  A network attempt ends in a transport failure  *)
(* (curl_requests.RequestsError), modelled by status 0, or in a response   *)
(* with a status and a body.  Body kinds:                                  *)
(*   "empty"      no content                                               *)
(*   "bad"        content that is not JSON (response.json() raises)        *)
(*   "rl_code"    {"error": {"code": 429}}                                 *)
(*   "rl_status"  {"error": {"status": "RESOURCE_EXHAUSTED"}}              *)
(*   "json"       a JSON object carrying what the operation reads          *)
(*   "json_empty" a JSON object whose expected field is absent or empty    *)
(*                (no access_token, no projectId, "operations": [], ...)   *)
(***************************************************************************)
Statuses == {200, 400, 429, 500}
Bodies   == {"empty", "bad", "rl_code", "rl_status", "json", "json_empty"}
Fail     == [status |-> 0, body |-> "none"]
Outcomes == {Fail} \cup [status : Statuses, body : Bodies]

VideoOps  == {"generate_video", "generate_video_reference",
              "generate_video_start", "generate_video_start_end"}
WriteOps  == {"generate_image", "upload_image", "create_project"}
ReadOps   == {"get_access_token", "get_credits", "get_user_projects",
              "check_video_status", "download_image", "download_video"}
SimpleOps == WriteOps \cup ReadOps
Ops       == VideoOps \cup SimpleOps

\* What a call gives its caller.  cause is the code of the exception that
\* was raised first, when the one that reaches the caller wraps it ("from e").
NoResult == [kind |-> "none", code |-> "", status |-> 0, cause |-> ""]
Returned == [kind |-> "ok", code |-> "", status |-> 0, cause |-> ""]
ReturnedNone == [kind |-> "ok", code |-> "None", status |-> 0, cause |-> ""]
Raise(code, status, cause) ==
    [kind |-> "error", code |-> code, status |-> status, cause |-> cause]

\* An exception in flight inside a function body, before its handlers.
Exc(exc, code, status) == [exc |-> exc, code |-> code, status |-> status]
NoExc == Exc("none", "", 0)

(***************************************************************************)
(* The retry loop of the four video generation calls.                      *)
(***************************************************************************)
\* Faulty variant: any status from 429 up is taken for the rate-limit status.
Is429AndAbove(status) == status >= 429

\* client.py 485: if response.status_code == 429
Is429(status) == status = 429

\* Faulty variant: a 429 without a body is taken for a rate limit as well.
IsRateLimitBodyOrEmpty(body) == body \in {"rl_code", "rl_status", "empty"}

\* Faulty variant: only error.code is looked at.
IsRateLimitBodyCodeOnly(body) == body = "rl_code"

\* client.py 488: error_info.get("code") == 429 or
\*                error_info.get("status") == "RESOURCE_EXHAUSTED"
IsRateLimitBody(body) == body \in {"rl_code", "rl_status"}

\* Faulty variant: one retry too many.
CanRetryOffByOne(att) == att < MAX_RETRY

\* client.py 489 and 513: if attempt < MAX_RETRY - 1
CanRetry(att) == att < MAX_RETRY - 1

\* Faulty variant: the delay is computed from the zero-based loop variable.
WaitTimeZeroBased(att) == RETRY_DELAY * att

\* client.py 490 and 514: wait_time = RETRY_DELAY * (attempt + 1)
WaitTime(att) == RETRY_DELAY * (att + 1)

\* client.py 475-510 (and 595-630, 711-746, 831-866): the try body of one
\* iteration, on the outcome r of its network attempt.  exc "continue" is the
\* path that sleeps and continues.
VideoBody(o, att, r) ==
    IF r = Fail THEN Exc("RequestsError", "", 0)
    ELSE IF Is429(r.status) /\ r.body = "bad"
         THEN Exc("Exception", "", 0)                \* response.json() raises
    ELSE IF Is429(r.status) /\ IsRateLimitBody(r.body)
         THEN IF CanRetry(att) THEN Exc("continue", "", 0)
              ELSE Exc("GrokApiException", "RATE_LIMIT_ERROR", 429)
    ELSE IF r.status # 200
         THEN Exc("GrokApiException", "HTTP_ERROR", r.status)
    ELSE IF r.body \in {"bad", "empty"}
         THEN Exc("Exception", "", 0)                \* response.json() raises
    ELSE IF o = "generate_video" /\ r.body = "json_empty"
         THEN Exc("Exception", "", 0)   \* line 509: operations[0] of []
    ELSE NoExc

\* client.py 512-524: the handlers of the iteration.
VideoHandlers(att, e) ==
    IF e.exc = "RequestsError"
    THEN IF CanRetry(att) THEN Exc("continue", "", 0)
         ELSE Exc("GrokApiException", "NETWORK_ERROR", 0)
    ELSE IF e.exc = "Exception"
    THEN Exc("GrokApiException", "REQUEST_ERROR", 0)
    ELSE e

\* Faulty variant: the range is one iteration short.
InRangeShort(att) == att < MAX_RETRY - 1

\* client.py 473: for attempt in range(MAX_RETRY)
InRange(att) == att < MAX_RETRY

(***************************************************************************)
(* The operations without a retry loop: one try body, two handlers.        *)
(***************************************************************************)
\* The field an operation requires of the 200 body, by the code it raises
\* when the field is missing; "" when it requires none.
MissingFieldCode(o) ==
    CASE o = "get_access_token" -> "NO_ACCESS_TOKEN"        \* client.py 159
      [] o = "create_project"   -> "CREATE_PROJECT_ERROR"   \* client.py 370
      [] o = "upload_image"     -> "UPLOAD_ERROR"           \* client.py 1111
      [] OTHER                  -> ""

\* The downloads return response.content and never parse it.
ParsesJson(o) == o \notin {"download_image", "download_video"}

\* The try body of a simple operation on the outcome r of its one attempt.
SimpleBody(o, r) ==
    IF r = Fail THEN Exc("RequestsError", "", 0)
    ELSE IF r.status # 200
         THEN Exc("GrokApiException", "HTTP_ERROR", r.status)
    ELSE IF ParsesJson(o) /\ r.body \in {"bad", "empty"}
         THEN Exc("Exception", "", 0)                \* response.json() raises
    ELSE IF MissingFieldCode(o) # "" /\ r.body # "json"
         THEN Exc("GrokApiException", MissingFieldCode(o), 0)
    ELSE NoExc

\* Faulty variant: a handler "except GrokApiException: raise" before the catch-all.
SimpleHandlersReraise(e) ==
    IF e.exc = "none" THEN Returned
    ELSE IF e.exc = "RequestsError" THEN Raise("NETWORK_ERROR", 0, "RequestsError")
    ELSE IF e.exc = "GrokApiException" THEN Raise(e.code, e.status, "")
    ELSE Raise("REQUEST_ERROR", 0, "Exception")

\* client.py 165-170 (and 211-216, 276-281, 376-381, 930-935, 988-993,
\* 1044-1049, 1117-1122, 1204-1209): except RequestsError, then
\* except Exception, which also catches the GrokApiException raised in the body.
SimpleHandlers(e) ==
    IF e.exc = "none" THEN Returned
    ELSE IF e.exc = "RequestsError" THEN Raise("NETWORK_ERROR", 0, "RequestsError")
    ELSE IF e.exc = "GrokApiException" THEN Raise("REQUEST_ERROR", 0, e.code)
    ELSE Raise("REQUEST_ERROR", 0, "Exception")

\* Faulty variant: the writes get the retry loop as well.
HasRetryLoopWrites(o) == o \in VideoOps \cup WriteOps

\* The operations whose body is the "for attempt in range(MAX_RETRY)" loop.
HasRetryLoop(o) == o \in VideoOps

(***************************************************************************)
(* One operation of the client, from the call to what its caller gets.     *)
(***************************************************************************)
ClientInit ==
    /\ op = "none" /\ model = None /\ aspect_ratio = None
    /\ video_model_key = None
    /\ pc = "idle" /\ attempt = 0 /\ wait_time = 0
    /\ responses = <<>> /\ sleeps = <<>> /\ result = NoResult

\* The flags each video generation call passes to the selector.
HasStart(o)     == o \in {"generate_video_start", "generate_video_start_end"}
HasEnd(o)       == o = "generate_video_start_end"
HasReference(o) == o = "generate_video_reference"

\* A video generation call up to its first network attempt: the model key is
\* selected before the loop and outside any try, so its raise propagates.
CallVideo(o, m, ar) ==
    /\ pc = "idle"
    /\ o \in VideoOps
    /\ op' = o /\ model' = m /\ aspect_ratio' = ar
    /\ LET key == get_video_model_key(m, ar, HasStart(o), HasEnd(o), HasReference(o))
       IN  IF key = UNSUPPORTED_MODEL
           THEN /\ video_model_key' = None
                /\ pc' = "done"
                /\ result' = Raise(UNSUPPORTED_MODEL, 0, "")
           ELSE /\ video_model_key' = key
                /\ pc' = "attempt"
                /\ UNCHANGED result
    /\ UNCHANGED <<attempt, wait_time, responses, sleeps, selVars, projVars, cacheVars, credVars, endVars, extVars>>

\* Any other operation up to its network attempt.
CallSimple(o) ==
    /\ pc = "idle"
    /\ o \in SimpleOps
    /\ op' = o
    /\ pc' = "attempt"
    /\ UNCHANGED <<model, aspect_ratio, video_model_key, attempt, wait_time,
                   responses, sleeps, result, selVars, projVars, cacheVars, credVars, endVars, extVars>>

\* One iteration of the retry loop: the network attempt and what follows it
\* up to the sleep, the raise or the return.
LoopAttempt(r) ==
    /\ pc = "attempt"
    /\ HasRetryLoop(op)
    /\ responses' = Append(responses, r)
    /\ LET e == VideoHandlers(attempt, VideoBody(op, attempt, r))
       IN  IF e.exc = "continue"
           THEN /\ wait_time' = WaitTime(attempt)
                /\ pc' = "sleep"
                /\ UNCHANGED result
           ELSE /\ pc' = "done"
                /\ result' = IF e.exc = "none" THEN Returned
                             ELSE Raise(e.code, e.status,
                                        IF e.code \in {"NETWORK_ERROR", "REQUEST_ERROR"}
                                        THEN VideoBody(op, attempt, r).exc ELSE "")
                /\ UNCHANGED wait_time
    /\ UNCHANGED <<op, model, aspect_ratio, video_model_key, attempt, sleeps,
                   selVars, projVars, cacheVars, credVars, endVars, extVars>>

\* asyncio.sleep(wait_time) returns and "continue" takes the next value of
\* range(MAX_RETRY); when the range is exhausted the loop ends and the
\* function returns None.
Sleep ==
    /\ pc = "sleep"
    /\ sleeps' = Append(sleeps, wait_time)
    /\ attempt' = attempt + 1
    /\ IF InRange(attempt + 1)
       THEN pc' = "attempt" /\ UNCHANGED result
       ELSE pc' = "done" /\ result' = ReturnedNone
    /\ UNCHANGED <<op, model, aspect_ratio, video_model_key, wait_time,
                   responses, selVars, projVars, cacheVars, credVars, endVars, extVars>>

\* The single network attempt of an operation without a retry loop.
SimpleAttempt(r) ==
    /\ pc = "attempt"
    /\ ~HasRetryLoop(op)
    /\ responses' = Append(responses, r)
    /\ pc' = "done"
    /\ result' = SimpleHandlers(SimpleBody(op, r))
    /\ UNCHANGED <<op, model, aspect_ratio, video_model_key, attempt, wait_time,
                   sleeps, selVars, projVars, cacheVars, credVars, endVars, extVars>>

Init == ClientInit
        /\ sel_args = [model |-> "veo-3_1_fast", aspect_ratio |-> LANDSCAPE,
                       has_start_image |-> FALSE, has_end_image |-> FALSE,
                       has_reference_images |-> FALSE]
        /\ sel_ret = "unset"
        /\ projects = <<>> /\ now = 0
        /\ gpc = <<>> /\ listed = <<>> /\ latest = <<>>
        /\ creates = <<>> /\ gresult = <<>>
        /\ CacheAtRest /\ CredAtRest /\ EndpointAtRest /\ ExtAtRest

Next ==
    \/ \E o \in VideoOps, m \in Models, ar \in AspectRatios : CallVideo(o, m, ar)
    \/ \E o \in SimpleOps : CallSimple(o)
    \/ \E r \in Outcomes : LoopAttempt(r)
    \/ Sleep
    \/ \E r \in Outcomes : SimpleAttempt(r)

\* One client operation against an arbitrary upstream.
Spec == Init /\ [][Next]_vars

\* The selector applied once to every argument tuple.
SelectorInit ==
    /\ SelInit /\ ClientInit
    /\ projects = <<>> /\ now = 0
    /\ gpc = <<>> /\ listed = <<>> /\ latest = <<>>
    /\ creates = <<>> /\ gresult = <<>>
    /\ CacheAtRest /\ CredAtRest /\ EndpointAtRest /\ ExtAtRest

SelectorNext == Select

SpecSelector == SelectorInit /\ [][SelectorNext]_vars

(***************************************************************************)
(* Vocabulary of the properties of one client operation.                   *)
(***************************************************************************)
\* A rate-limit response: HTTP 429 whose body reports code 429 or
\* RESOURCE_EXHAUSTED.
RateLimitResponse(r) == r.status = 429 /\ r.body \in {"rl_code", "rl_status"}

TransportFailure(r) == r.status = 0

\* A 200 whose body is the JSON document the operation o reads.
Success200(o, r) ==
    /\ r.status = 200
    /\ r.body \notin {"bad", "empty"}
    /\ ~(o = "generate_video" /\ r.body = "json_empty")

Attempts == Len(responses)

\* C1: a video generation call that gets a rate-limit response on three
\* consecutive attempts has made exactly 3 network attempts and has ended with
\* RATE_LIMIT_ERROR; one that gets a rate-limit response and then a 200 has
\* made exactly 2 network attempts and has returned normally.
C1_RateLimitRetry ==
    op \in VideoOps =>
        /\ (Attempts >= 3 /\ \A i \in 1..3 : RateLimitResponse(responses[i]))
              => /\ pc = "done"
                 /\ Attempts = 3
                 /\ result = Raise("RATE_LIMIT_ERROR", 429, "")
        /\ (Attempts >= 2 /\ RateLimitResponse(responses[1])
                          /\ Success200(op, responses[2]))
              => /\ pc = "done"
                 /\ Attempts = 2
                 /\ result = Returned

C1_Witness ==
    /\ op = "generate_video_start_end"
    /\ pc = "done"
    /\ Attempts = 3
    /\ \A i \in 1..3 : RateLimitResponse(responses[i])
    /\ result.code = "RATE_LIMIT_ERROR"

\* C2: whatever the upstream answers, a video generation call makes at most 3
\* network attempts, rate-limit and transport-failure retries counted
\* together, and three transport failures end it with NETWORK_ERROR.
C2_AttemptBound ==
    op \in VideoOps =>
        /\ Attempts <= 3
        /\ (Attempts >= 3 /\ \A i \in 1..3 : TransportFailure(responses[i]))
              => /\ pc = "done"
                 /\ result.kind = "error"
                 /\ result.code = "NETWORK_ERROR"

C2_Witness ==
    /\ op \in VideoOps
    /\ pc = "done"
    /\ Attempts = 3
    /\ TransportFailure(responses[1])
    /\ RateLimitResponse(responses[2])
    /\ TransportFailure(responses[3])
    /\ result.code = "NETWORK_ERROR"

\* C3: in a video generation call a response whose status is neither 200 nor
\* 429, on whichever attempt it arrives, is the last attempt: the call has
\* ended with HTTP_ERROR carrying that status and has not slept after it.
C3_NoRetryOnOtherStatus ==
    op \in VideoOps =>
        \A i \in 1..Attempts :
            (~TransportFailure(responses[i]) /\ responses[i].status \notin {200, 429})
              => /\ i = Attempts
                 /\ pc = "done"
                 /\ result = Raise("HTTP_ERROR", responses[i].status, "")
                 /\ Len(sleeps) = i - 1

C3_Witness ==
    /\ op \in VideoOps
    /\ pc = "done"
    /\ Attempts = 3
    /\ responses[3].status = 500
    /\ responses[3].body = "rl_status"
    /\ result = Raise("HTTP_ERROR", 500, "")
    /\ Len(sleeps) = 2

\* C4 as stated: every write/generate call retries a rate-limit response or a
\* transport failure up to 3 attempts, and every read makes one attempt.
C4_RetryOnEveryWrite ==
    (pc = "done" /\ Attempts >= 1) =>
        /\ (op \in VideoOps \cup WriteOps
              /\ (RateLimitResponse(responses[Attempts])
                    \/ TransportFailure(responses[Attempts])))
             => Attempts = 3
        /\ op \in ReadOps => Attempts = 1

\* C4, amended: only the four video generation calls retry (a rate-limit
\* response or a transport failure, up to 3 attempts in total); image
\* generation, image upload, project creation and the reads make exactly one
\* network attempt and never sleep.
C4_RetryOnlyVideoCalls ==
    /\ op \in VideoOps =>
          /\ \A i \in 1..(Attempts - 1) :
                RateLimitResponse(responses[i]) \/ TransportFailure(responses[i])
          /\ (pc = "done" /\ Attempts >= 1
                /\ (RateLimitResponse(responses[Attempts])
                      \/ TransportFailure(responses[Attempts])))
               => Attempts = 3
    /\ op \in SimpleOps =>
          /\ Attempts <= 1
          /\ sleeps = <<>>
          /\ pc \in {"attempt", "done"}
          /\ (pc = "done") <=> (Attempts = 1)

C4_Witness ==
    /\ op = "upload_image"
    /\ pc = "done"
    /\ Attempts = 1
    /\ RateLimitResponse(responses[1])
    /\ result.kind = "error"

\* C5: the call sleeps 5 x n after the failed attempt n, for n = 1 and 2, for
\* rate-limit and transport failures alike, and never after the third attempt.
C5_LinearBackoff ==
    op \in VideoOps =>
        /\ Len(sleeps) <= 2
        /\ \A n \in 1..Len(sleeps) :
              /\ sleeps[n] = 5 * n
              /\ RateLimitResponse(responses[n]) \/ TransportFailure(responses[n])
        /\ pc = "sleep" => /\ Attempts \in {1, 2}
                           /\ wait_time = 5 * Attempts
                           /\ Len(sleeps) = Attempts - 1
        /\ pc = "attempt" => Len(sleeps) = Attempts
        /\ (pc = "done" /\ Attempts >= 1) => Len(sleeps) = Attempts - 1

C5_Witness ==
    /\ op \in VideoOps
    /\ pc = "done"
    /\ Attempts = 3
    /\ TransportFailure(responses[1])
    /\ RateLimitResponse(responses[2])
    /\ RateLimitResponse(responses[3])
    /\ sleeps = <<5, 10>>

\* C6: get_access_token ends with NO_ACCESS_TOKEN on a 200 without the
\* access_token field, with HTTP_ERROR carrying the status on a non-200
\* response, and with NETWORK_ERROR on a transport failure.
C6_AccessTokenErrorKinds ==
    (op = "get_access_token" /\ pc = "done") =>
        LET r == responses[1] IN
        /\ TransportFailure(r) => result.code = "NETWORK_ERROR"
        /\ (~TransportFailure(r) /\ r.status # 200)
              => result = Raise("HTTP_ERROR", r.status, "")
        /\ (r.status = 200 /\ r.body \in {"json_empty", "rl_code", "rl_status"})
              => result.code = "NO_ACCESS_TOKEN"

\* C10: on the text-to-video path the selector returns the key of the
\* reference table for every tier and orientation.
C10_TextKeyTable ==
    (/\ sel_ret # "unset"
     /\ ~sel_args.has_start_image
     /\ ~sel_args.has_end_image
     /\ ~sel_args.has_reference_images
     /\ sel_args.model \in Tiers
     /\ sel_args.aspect_ratio \in {LANDSCAPE, PORTRAIT})
    => sel_ret =
         CASE sel_args.model = "veo-3_1_fast" /\ sel_args.aspect_ratio = LANDSCAPE
                -> "veo_3_1_t2v_fast_ultra"
           [] sel_args.model = "veo-3_1_fast" /\ sel_args.aspect_ratio = PORTRAIT
                -> "veo_3_1_t2v_fast_portrait_ultra"
           [] sel_args.model = "veo-3_1_relaxed" /\ sel_args.aspect_ratio = LANDSCAPE
                -> "veo_3_1_t2v_fast_ultra_relaxed"
           [] sel_args.model = "veo-3_1_relaxed" /\ sel_args.aspect_ratio = PORTRAIT
                -> "veo_3_1_t2v_fast_portrait_ultra_relaxed"
           [] sel_args.model = "veo-3_1_quality"
                -> "veo_3_1_t2v"

C10_Witness ==
    /\ sel_args = [model |-> "veo-3_1_relaxed", aspect_ratio |-> PORTRAIT,
                   has_start_image |-> FALSE, has_end_image |-> FALSE,
                   has_reference_images |-> FALSE]
    /\ sel_ret = "veo_3_1_t2v_fast_portrait_ultra_relaxed"

\* The documented input space of the selector: the three tiers, any
\* orientation string, any combination of the three flags.
Documented(a) == a.model \in Tiers

\* C11: with the quality tier and reference images the selector rejects with
\* UNSUPPORTED_MODEL, whatever the orientation and the start/end flags.
C11_QualityReferenceRejected ==
    (/\ sel_ret # "unset"
     /\ sel_args.model = "veo-3_1_quality"
     /\ sel_args.has_reference_images)
    => sel_ret = UNSUPPORTED_MODEL

C11_Witness ==
    /\ sel_args = [model |-> "veo-3_1_quality", aspect_ratio |-> PORTRAIT,
                   has_start_image |-> TRUE, has_end_image |-> TRUE,
                   has_reference_images |-> TRUE]
    /\ sel_ret = UNSUPPORTED_MODEL

\* C12: references are matched first: with reference images and a tier other
\* than quality the result is the reference key of the tier whatever the
\* other arguments are; and an end frame without a start frame selects what
\* the same call without the end frame selects.
C12_ReferencesFirst ==
    sel_ret # "unset" =>
      /\ (sel_args.has_reference_images /\ sel_args.model = "veo-3_1_fast")
            => sel_ret = "veo_3_0_r2v_fast_ultra"
      /\ (sel_args.has_reference_images /\ sel_args.model = "veo-3_1_relaxed")
            => sel_ret = "veo_3_0_r2v_fast_ultra_relaxed"
      /\ (sel_args.has_end_image /\ ~sel_args.has_start_image /\ Documented(sel_args))
            => sel_ret = get_video_model_key(sel_args.model,
                                             sel_args.aspect_ratio, FALSE, FALSE,
                                             sel_args.has_reference_images)

C12_Witness ==
    /\ sel_args = [model |-> "veo-3_1_relaxed", aspect_ratio |-> PORTRAIT,
                   has_start_image |-> TRUE, has_end_image |-> TRUE,
                   has_reference_images |-> TRUE]
    /\ sel_ret = "veo_3_0_r2v_fast_ultra_relaxed"

\* The generation mode an argument tuple asks for, in the selector's order.
PathOf(a) ==
    IF a.has_reference_images THEN "reference"
    ELSE IF a.has_start_image /\ a.has_end_image THEN "start_end"
    ELSE IF a.has_start_image THEN "start"
    ELSE "text"

KeyOf(a) == get_video_model_key(a.model, a.aspect_ratio, a.has_start_image,
                                a.has_end_image, a.has_reference_images)

IsLandscape(a) == a.aspect_ratio = LANDSCAPE

\* C13: on the start+end path and on the start path each (tier, orientation)
\* pair has a key of its own: any documented call that yields the same key
\* is on the same path with the same tier and the same orientation, so no
\* key is shared within a path or with any other path.
C13_FrameKeysDistinct ==
    (/\ sel_ret # "unset"
     /\ Documented(sel_args)
     /\ PathOf(sel_args) \in {"start_end", "start"})
    => /\ sel_ret # UNSUPPORTED_MODEL
       /\ \A b \in SelArgs :
            (Documented(b) /\ KeyOf(b) = sel_ret)
            => /\ PathOf(b) = PathOf(sel_args)
               /\ b.model = sel_args.model
               /\ IsLandscape(b) = IsLandscape(sel_args)

C13_Witness ==
    /\ sel_args = [model |-> "veo-3_1_fast", aspect_ratio |-> PORTRAIT,
                   has_start_image |-> TRUE, has_end_image |-> FALSE,
                   has_reference_images |-> FALSE]
    /\ sel_ret = "veo_3_1_i2v_s_fast_portrait"

\* C14: on the documented input space the selector returns a key on every
\* input except exactly the quality tier with reference images, where it
\* rejects.
C14_TotalExceptQualityReference ==
    (sel_ret # "unset" /\ Documented(sel_args))
    => (sel_ret = UNSUPPORTED_MODEL
          <=> (sel_args.has_reference_images /\ sel_args.model = "veo-3_1_quality"))

C14_Witness ==
    /\ sel_args = [model |-> "veo-3_1_quality", aspect_ratio |-> LANDSCAPE,
                   has_start_image |-> TRUE, has_end_image |-> TRUE,
                   has_reference_images |-> FALSE]
    /\ sel_ret = "veo_3_1_i2v_s_fl"

(***************************************************************************)
(* get_latest_project, create_project and get_or_create_project, run by    *)
(* concurrent orchestrations against one upstream account.  A project is   *)
(* [projectId, creationTime]; creationTime 0 stands for a project without  *)
(* the field, whose sort key is the default "" (below every timestamp).    *)
(* Timestamps of one format compare as strings the way they do as times.   *)
(***************************************************************************)
NumOrch == 2
MaxInitProjects == 2

Orch == 1..NumOrch

\* Python's None where a project id is expected (Optional[str]); ids start at 1.
NoProject == 0

\* The upstream answers drawn for the project round trips: one per path.
ProjOutcomes == {Fail,
                 [status |-> 500, body |-> "empty"],
                 [status |-> 200, body |-> "bad"],
                 [status |-> 200, body |-> "json_empty"],
                 [status |-> 200, body |-> "json"]}

\* The creation times of the projects an account holds at the start: none
\* (0), and two timestamps, so that lists with equal and with differing times
\* arise in either order.
InitTimes == {0, 1, 2}
LastInitTime == CHOOSE t \in InitTimes : \A u \in InitTimes : u <= t

\* The project lists an account may hold at the start; ids are labels, given
\* in list order.
InitialProjects ==
    UNION { { ps \in [1..n -> [projectId : 1..n, creationTime : InitTimes]] :
                \A i \in 1..n : ps[i].projectId = i }
            : n \in 0..MaxInitProjects }

\* t with x put behind every element whose key is not below x's: one step of
\* a stable descending sort.
InsertDesc(t, x) ==
    LET k == Cardinality({i \in 1..Len(t) : t[i].creationTime >= x.creationTime})
    IN  SubSeq(t, 1, k) \o <<x>> \o SubSeq(t, k + 1, Len(t))

\* Faulty variant: reverse=True forgotten, the sort is ascending.
RECURSIVE SortedAscending(_)
SortedAscending(ps) ==
    IF ps = <<>> THEN <<>>
    ELSE LET t == SortedAscending(SubSeq(ps, 1, Len(ps) - 1))
             x == ps[Len(ps)]
             k == Cardinality({i \in 1..Len(t) : t[i].creationTime <= x.creationTime})
         IN  SubSeq(t, 1, k) \o <<x>> \o SubSeq(t, k + 1, Len(t))

\* client.py 303-307: sorted(projects, key=creationTime, reverse=True);
\* Python's sort is stable, also with reverse=True.
RECURSIVE sorted_projects(_)
sorted_projects(ps) ==
    IF ps = <<>> THEN <<>>
    ELSE InsertDesc(sorted_projects(SubSeq(ps, 1, Len(ps) - 1)), ps[Len(ps)])

\* What get_user_projects' 200 body holds under result.data.json.result.projects
\* (client.py 296): the upstream list, or the default [] when the path is absent.
ProjectsIn(r, ps) == IF r.body = "json" THEN ps ELSE <<>>

Value(v) == [kind |-> "ok", value |-> v, code |-> ""]
Error(code) == [kind |-> "error", value |-> NoProject, code |-> code]

\* Faulty variant: the error of get_user_projects is let through.
get_latest_project_raising(r, ps) ==
    LET listing == SimpleHandlers(SimpleBody("get_user_projects", r)) IN
    IF listing.kind = "error" THEN Error(listing.code)
    ELSE IF ProjectsIn(r, ps) = <<>> THEN Value(NoProject)
    ELSE Value(sorted_projects(ProjectsIn(r, ps))[1].projectId)

\* client.py 293-315: get_latest_project on the outcome r of the list round
\* trip, the upstream holding ps.  "except Exception: return None" turns every
\* failure of get_user_projects into None.
get_latest_project(r, ps) ==
    LET listing == SimpleHandlers(SimpleBody("get_user_projects", r)) IN
    IF listing.kind = "error" THEN Value(NoProject)
    ELSE IF ProjectsIn(r, ps) = <<>> THEN Value(NoProject)
    ELSE Value(sorted_projects(ProjectsIn(r, ps))[1].projectId)

\* Faulty variant: the test is dropped and the latest id returned as it is.
NeedsCreateNever(project_id) == FALSE

\* client.py 395: if not project_id
NeedsCreate(project_id) == project_id = NoProject

NoListing == [kind |-> "none", code |-> "", seen |-> <<>>]

ProjectInit ==
    /\ projects \in InitialProjects
    /\ now = LastInitTime
    /\ gpc = [o \in Orch |-> "list"]
    /\ listed = [o \in Orch |-> NoListing]
    /\ latest = [o \in Orch |-> NoProject]
    /\ creates = [o \in Orch |-> <<>>]
    /\ gresult = [o \in Orch |-> [kind |-> "none", value |-> NoProject, code |-> ""]]

\* client.py 393-395: the list round trip of get_latest_project and the test
\* on what it returned.
GetLatestProject(o, r) ==
    /\ gpc[o] = "list"
    /\ LET listing == SimpleHandlers(SimpleBody("get_user_projects", r))
           got     == get_latest_project(r, projects)
       IN  /\ listed' = [listed EXCEPT ![o] =
                            [kind |-> listing.kind, code |-> listing.code,
                             seen |-> IF listing.kind = "ok"
                                      THEN ProjectsIn(r, projects) ELSE <<>>]]
           /\ IF got.kind = "error"
              THEN /\ gpc' = [gpc EXCEPT ![o] = "done"]
                   /\ gresult' = [gresult EXCEPT ![o] = got]
                   /\ UNCHANGED latest
              ELSE /\ latest' = [latest EXCEPT ![o] = got.value]
                   /\ IF NeedsCreate(got.value)
                      THEN /\ gpc' = [gpc EXCEPT ![o] = "create"]
                           /\ UNCHANGED gresult
                      ELSE /\ gpc' = [gpc EXCEPT ![o] = "done"]
                           /\ gresult' = [gresult EXCEPT ![o] = Value(got.value)]
    /\ UNCHANGED <<projects, now, creates, selVars, clientVars, cacheVars, credVars, endVars, extVars>>

\* client.py 396-398 with 328-381: the create round trip.  The upstream adds
\* the project when it answers 200, stamped with its advancing clock, at the
\* tail of its list (equal stamps and other orders arise in InitialProjects).
CreateProject(o, r) ==
    /\ gpc[o] = "create"
    /\ LET id      == Len(projects) + 1
           created == [projectId |-> id, creationTime |-> now + 1]
           res     == SimpleHandlers(SimpleBody("create_project", r))
       IN  /\ IF r.status = 200
              THEN /\ projects' = Append(projects, created)
                   /\ now' = now + 1
              ELSE UNCHANGED <<projects, now>>
           /\ creates' = [creates EXCEPT ![o] =
                             Append(@, [status |-> r.status,
                                        id |-> IF r.status = 200 THEN id ELSE 0])]
           /\ gresult' = [gresult EXCEPT ![o] =
                             IF res.kind = "ok" THEN Value(id) ELSE Error(res.code)]
           /\ gpc' = [gpc EXCEPT ![o] = "done"]
    /\ UNCHANGED <<listed, latest, selVars, clientVars, cacheVars, credVars, endVars, extVars>>

ProjectNext ==
    \/ \E o \in Orch, r \in ProjOutcomes : GetLatestProject(o, r)
    \/ \E o \in Orch, r \in ProjOutcomes : CreateProject(o, r)

ProjectSpecInit ==
    /\ ProjectInit /\ ClientInit
    /\ sel_args = [model |-> "veo-3_1_fast", aspect_ratio |-> LANDSCAPE,
                   has_start_image |-> FALSE, has_end_image |-> FALSE,
                   has_reference_images |-> FALSE]
    /\ sel_ret = "unset"
    /\ CacheAtRest /\ CredAtRest /\ EndpointAtRest /\ ExtAtRest

\* Concurrent get_or_create_project calls on one account.
SpecProject == ProjectSpecInit /\ [][ProjectNext]_vars

(***************************************************************************)
(* Properties of get_latest_project and get_or_create_project.             *)
(***************************************************************************)
ListingDone(o) == listed[o].kind # "none"

\* The projects of ps no project of ps is newer than.
Newest(ps) == {ps[i].projectId : i \in {k \in 1..Len(ps) :
                  \A j \in 1..Len(ps) : ps[j].creationTime <= ps[k].creationTime}}

\* The ids the upstream created on o's create calls.
CreatedIds(o) == {creates[o][i].id : i \in {k \in 1..Len(creates[o]) :
                     creates[o][k].status = 200}}

\* C7: no operation swallows an error: when the list round trip inside
\* get_latest_project fails, get_or_create_project ends with an error, and
\* 'no project' is returned only for a list that is really empty.
C7_NoSwallowedError ==
    \A o \in Orch :
        /\ (ListingDone(o) /\ listed[o].kind = "error")
              => (gpc[o] = "done" /\ gresult[o].kind = "error")
        /\ (ListingDone(o) /\ gpc[o] = "create")
              => (listed[o].kind = "ok" /\ listed[o].seen = <<>>)

\* C8: get_or_create_project issues a create call exactly when
\* get_latest_project returned None; a list with at least one project gives the
\* id of a project of the greatest creation time and no create call; an empty
\* list gives exactly one create call, whose id is returned.
C8_CreateIffNone ==
    \A o \in Orch :
        /\ Len(creates[o]) <= 1
        /\ gpc[o] = "create" => (latest[o] = NoProject /\ creates[o] = <<>>)
        /\ gpc[o] = "done" =>
              /\ (Len(creates[o]) = 1) <=> (latest[o] = NoProject)
              /\ (listed[o].kind = "ok" /\ listed[o].seen # <<>>)
                    => /\ creates[o] = <<>>
                       /\ gresult[o].kind = "ok"
                       /\ gresult[o].value = latest[o]
                       /\ gresult[o].value \in Newest(listed[o].seen)
              /\ (listed[o].kind = "ok" /\ listed[o].seen = <<>>)
                    => /\ Len(creates[o]) = 1
                       /\ gresult[o].kind = "ok"
                            => /\ gresult[o].value \in CreatedIds(o)
                               /\ \E i \in 1..Len(projects) :
                                     projects[i].projectId = gresult[o].value

C8_Witness ==
    /\ gpc[1] = "done"
    /\ listed[1].kind = "ok"
    /\ Len(listed[1].seen) = 2
    /\ listed[1].seen[1].creationTime < listed[1].seen[2].creationTime
    /\ gresult[1] = Value(listed[1].seen[2].projectId)
    /\ creates[1] = <<>>

\* C9: nothing in get_or_create_project ties the create call to the state of
\* the account at the time of the call: every orchestration that saw no
\* project creates one, also when another has created one since, and
\* orchestrations that both saw an empty account end with different projects.
C9_CreateNotGuarded ==
    \A o \in Orch :
        /\ (gpc[o] = "done" /\ listed[o].kind = "ok" /\ listed[o].seen = <<>>)
              => Len(creates[o]) = 1
        /\ \A q \in Orch \ {o} :
              (/\ gpc[o] = "done" /\ gpc[q] = "done"
               /\ listed[o].kind = "ok" /\ listed[o].seen = <<>>
               /\ listed[q].kind = "ok" /\ listed[q].seen = <<>>
               /\ gresult[o].kind = "ok" /\ gresult[q].kind = "ok")
              => /\ gresult[o].value # gresult[q].value
                 /\ Len(projects) >= 2

\* Two orchestrations started on an account without a project have both seen
\* 'no project' and both created one: the account holds two projects.
C9_Witness ==
    /\ gpc[1] = "done" /\ gpc[2] = "done"
    /\ listed[1].kind = "ok" /\ listed[1].seen = <<>>
    /\ listed[2].kind = "ok" /\ listed[2].seen = <<>>
    /\ CreatedIds(1) # {} /\ CreatedIds(2) # {}
    /\ CreatedIds(1) # CreatedIds(2)
    /\ Len(projects) = 2
    /\ gresult[1].kind = "ok" /\ gresult[2].kind = "ok"

(***************************************************************************)
(* ImageUploadCache (image_cache.py) and the media-id resolution that uses *)
(* it (_get_media_id_from_url and the same lines of generate_image in      *)
(* videos.py), run by concurrent tasks of one event loop.  A step is the   *)
(* code a task runs between two suspensions; the suspensions are the       *)
(* download, the upload, a wait for the lock, and the file input/output    *)
(* done while the lock is held.  The lock is asyncio.Lock: a task acquires *)
(* it at once when it is free and nobody waits, else it queues, and a      *)
(* release hands it to the first in the queue.                             *)
(***************************************************************************)
NumTasks == 3
MaxCalls == 3

Tasks  == 1..NumTasks
NoTask == 0
Urls   == {"u1", "u2"}
NoId   == 0
PreId  == 1
Ids    == PreId..(PreId + MaxCalls)

\* image_cache.py 41-43: the SHA-256 digest of the url, a key of its own.
hash_url(url) == <<"sha256", url>>
Digests == {hash_url(u) : u \in Urls}

\* dict.get on every key: NoId where the key is absent.
EmptyMap == [d \in Digests |-> NoId]

\* The index file: absent, unparseable, or the JSON text of a map.
Missing == [kind |-> "missing", data |-> EmptyMap]
Corrupt == [kind |-> "corrupt", data |-> EmptyMap]
\* image_cache.py 70: orjson.dumps of the map.
Dumps(m) == [kind |-> "json", data |-> m]
\* image_cache.py 55: orjson.loads of the content; raises unless it parses.
Parses(content) == content.kind = "json"
Loads(content) == content.data

InitialFiles ==
    {Missing, Corrupt, Dumps(EmptyMap),
     Dumps([EmptyMap EXCEPT ![hash_url("u1")] = PreId])}

\* Faulty variant: a load that keeps what it read when the read failed.
LoadedMapIgnoresFailure(content, read_ok) == Loads(content)

\* image_cache.py 45-59: the map _load_cache leaves, given whether the read
\* went through.
LoadedMap(content, read_ok) ==
    IF read_ok /\ Parses(content) THEN Loads(content) ELSE EmptyMap

\* Faulty variant: a lookup result that never counts as a hit.
IsHitNever(id) == FALSE

\* videos.py 75, 557: "if cached_id:".
IsHit(id) == id # NoId

\* asyncio.Lock.acquire without suspension.
CanAcquire == lock = NoTask /\ waiters = <<>>

\* asyncio.Lock.release: the first waiter gets the lock and goes on.
ReleasedTo == IF waiters = <<>> THEN NoTask ELSE Head(waiters)
Granted(p) ==
    [t \in Tasks |->
        IF waiters # <<>> /\ t = Head(waiters)
        THEN (IF p[t] = "wait_load" THEN "loading" ELSE "saving")
        ELSE p[t]]
Release ==
    /\ lock' = ReleasedTo
    /\ waiters' = IF waiters = <<>> THEN <<>> ELSE Tail(waiters)

Ready == {"idle", "returned", "raised"}

\* image_cache.py 23-39 run as the application starts (main.py 36), when the
\* start-up call was made; otherwise the object as constructed (18-21).
CacheInit ==
    /\ storage_ok \in BOOLEAN
    /\ file \in InitialFiles
    /\ initialized \in BOOLEAN
    /\ cache_file = (initialized /\ storage_ok)
    /\ cache = IF initialized /\ storage_ok
               THEN LoadedMap(file, TRUE) ELSE EmptyMap
    /\ lock = NoTask /\ waiters = <<>>
    /\ tpc = [t \in Tasks |-> "idle"]
    /\ turl = [t \in Tasks |-> "u1"]
    /\ cached_id = [t \in Tasks |-> NoId]
    /\ media_id = [t \in Tasks |-> NoId]
    /\ prev_id = [t \in Tasks |-> NoId]
    /\ tret = [t \in Tasks |-> NoId]
    /\ tdl = [t \in Tasks |-> 0]
    /\ tul = [t \in Tasks |-> 0]
    /\ tprior = [t \in Tasks |-> NoId]
    /\ uploads = [u \in Urls |-> 0]
    /\ uploaded_for = [i \in Ids |-> "none"]
    /\ first_stored = [u \in Urls |-> NoId]
    /\ last_stored = [u \in Urls |-> NoId]
    /\ next_id = PreId + 1
    /\ calls = 0

\* videos.py 74-77 (556-559) once the cache is initialised: the dictionary
\* lookup of get (image_cache.py 81-86) on map c, then the return of the
\* cached id or the start of the download.  p is the tasks' positions.
Lookup(t, u, c, p) ==
    LET id == c[hash_url(u)] IN
    /\ cached_id' = [cached_id EXCEPT ![t] = id]
    /\ IF IsHit(id)
       THEN /\ tpc' = [p EXCEPT ![t] = "returned"]
            /\ tret' = [tret EXCEPT ![t] = id]
       ELSE /\ tpc' = [p EXCEPT ![t] = "downloading"]
            /\ tret' = [tret EXCEPT ![t] = NoId]

\* The tasks are interchangeable (the lock serves them in order of arrival,
\* whoever they are), so they make their first calls in the order of their
\* numbers.
StartsInOrder(t) == \A w \in Tasks : w < t => tpc[w] # "idle"

\* A task starts resolving url u: image_upload_cache.get(u), with the lazy
\* init of image_cache.py 77-78 and 23-39 when the cache is not initialised.
Resolve(t, u) ==
    /\ tpc[t] \in Ready
    /\ StartsInOrder(t)
    /\ calls < MaxCalls
    /\ calls' = calls + 1
    /\ turl' = [turl EXCEPT ![t] = u]
    /\ media_id' = [media_id EXCEPT ![t] = NoId]
    /\ prev_id' = [prev_id EXCEPT ![t] = NoId]
    /\ tdl' = [tdl EXCEPT ![t] = 0]
    /\ tul' = [tul EXCEPT ![t] = 0]
    /\ tprior' = [tprior EXCEPT ![t] = first_stored[u]]
    /\ IF initialized
       THEN /\ Lookup(t, u, cache, tpc)
            /\ UNCHANGED <<initialized, cache_file, cache, lock, waiters>>
       ELSE IF ~storage_ok
       THEN \* get_storage raises: lines 37-39
            /\ initialized' = TRUE
            /\ Lookup(t, u, cache, tpc)
            /\ UNCHANGED <<cache_file, cache, lock, waiters>>
       ELSE IF file.kind = "missing"
       THEN \* _load_cache lines 47-49, then line 35
            /\ cache_file' = TRUE
            /\ cache' = EmptyMap
            /\ initialized' = TRUE
            /\ Lookup(t, u, EmptyMap, tpc)
            /\ UNCHANGED <<lock, waiters>>
       ELSE \* _load_cache line 52: take the lock or wait for it
            /\ cache_file' = TRUE
            /\ IF CanAcquire
               THEN /\ lock' = t
                    /\ tpc' = [tpc EXCEPT ![t] = "loading"]
                    /\ UNCHANGED waiters
               ELSE /\ waiters' = Append(waiters, t)
                    /\ tpc' = [tpc EXCEPT ![t] = "wait_load"]
                    /\ UNCHANGED lock
            /\ cached_id' = [cached_id EXCEPT ![t] = NoId]
            /\ tret' = [tret EXCEPT ![t] = NoId]
            /\ UNCHANGED <<initialized, cache>>
    /\ UNCHANGED <<storage_ok, file, uploads, uploaded_for, first_stored,
                   last_stored, next_id,
                   selVars, clientVars, projVars, credVars, endVars, extVars>>

\* The read of _load_cache ends (image_cache.py 53-59): the map is replaced
\* by the file's content, or by the empty map when the read or the parse
\* fails; the lock is released, init marks the cache initialised (line 35)
\* and get goes on with its lookup.
LoadFinish(t, read_ok) ==
    /\ tpc[t] = "loading"
    /\ cache' = LoadedMap(file, read_ok)
    /\ Release
    /\ initialized' = TRUE
    /\ Lookup(t, turl[t], cache', Granted(tpc))
    /\ UNCHANGED <<storage_ok, file, cache_file, turl, media_id, prev_id, tdl,
                   tul, tprior, uploads, uploaded_for, first_stored,
                   last_stored, next_id, calls,
                   selVars, clientVars, projVars, credVars, endVars, extVars>>

\* FlowClient.download_image returns or raises (videos.py 80, 562).
DownloadDone(t, ok) ==
    /\ tpc[t] = "downloading"
    /\ tdl' = [tdl EXCEPT ![t] = @ + 1]
    /\ tpc' = [tpc EXCEPT ![t] = IF ok THEN "uploading" ELSE "raised"]
    /\ UNCHANGED <<storage_ok, file, initialized, cache_file, cache, lock,
                   waiters, turl, cached_id, media_id, prev_id, tret, tul,
                   tprior, uploads, uploaded_for, first_stored, last_stored,
                   next_id, calls,
                   selVars, clientVars, projVars, credVars, endVars, extVars>>

\* Faulty variant: the cache is written whether or not the upload returned.
SetReachedAlways(ok) == TRUE

\* videos.py 89-97: image_upload_cache.set follows the await of
\* upload_image and is reached only when that call returned an id; an
\* exception of upload_image (client.py 1101-1122) leaves the function.
SetReached(ok) == ok

\* The resolution returns the uploaded id (videos.py 100).
Stored(fs, u, id) == [fs EXCEPT ![u] = IF @ = NoId THEN id ELSE @]

\* FlowClient.upload_image returns or raises (videos.py 89, 568); on a
\* return image_upload_cache.set runs up to its first suspension:
\* image_cache.py 94 writes the map, then _save_cache returns at once
\* without a cache file (62-63) or takes the lock or waits for it (67).
UploadDone(t, ok) ==
    /\ tpc[t] = "uploading"
    /\ tul' = [tul EXCEPT ![t] = @ + 1]
    /\ IF ~SetReached(ok)
       THEN /\ tpc' = [tpc EXCEPT ![t] = "raised"]
            /\ UNCHANGED <<cache, lock, waiters, media_id, prev_id, tret,
                           uploads, uploaded_for, first_stored,
                           last_stored, next_id>>
       ELSE /\ media_id' = [media_id EXCEPT ![t] = next_id]
            /\ next_id' = next_id + 1
            /\ uploads' = [uploads EXCEPT ![turl[t]] = @ + 1]
            /\ uploaded_for' = [uploaded_for EXCEPT ![next_id] = turl[t]]
            /\ prev_id' = [prev_id EXCEPT ![t] = cache[hash_url(turl[t])]]
            /\ cache' = [cache EXCEPT ![hash_url(turl[t])] = next_id]
            /\ IF ~cache_file
               THEN /\ tpc' = [tpc EXCEPT ![t] = "returned"]
                    /\ tret' = [tret EXCEPT ![t] = next_id]
                    /\ first_stored' = Stored(first_stored, turl[t], next_id)
                    /\ last_stored' = [last_stored EXCEPT ![turl[t]] = next_id]
                    /\ UNCHANGED <<lock, waiters>>
               ELSE /\ IF CanAcquire
                       THEN /\ lock' = t
                            /\ tpc' = [tpc EXCEPT ![t] = "saving"]
                            /\ UNCHANGED waiters
                       ELSE /\ waiters' = Append(waiters, t)
                            /\ tpc' = [tpc EXCEPT ![t] = "wait_save"]
                            /\ UNCHANGED lock
                    /\ UNCHANGED <<tret, first_stored, last_stored>>
    /\ UNCHANGED <<storage_ok, file, initialized, cache_file, turl, cached_id,
                   tdl, tprior, calls, selVars, clientVars, projVars, credVars, endVars, extVars>>

WriteOutcomes == {"ok", "open_fails", "write_fails"}

\* image_cache.py 68-73: what the index file holds after the write.  Opening
\* with "w" truncates; a failure is logged and swallowed.
Written(content, m, outcome) ==
    IF outcome = "ok" THEN Dumps(m)
    ELSE IF outcome = "write_fails" THEN Corrupt
    ELSE content

\* The write of _save_cache ends (image_cache.py 67-73): the whole map as it
\* is now goes to the file, the lock is released, set returns and the
\* resolution returns the uploaded id.
SaveFinish(t, outcome) ==
    /\ tpc[t] = "saving"
    /\ file' = Written(file, cache, outcome)
    /\ Release
    /\ tpc' = [Granted(tpc) EXCEPT ![t] = "returned"]
    /\ tret' = [tret EXCEPT ![t] = media_id[t]]
    /\ first_stored' = Stored(first_stored, turl[t], media_id[t])
    /\ last_stored' = [last_stored EXCEPT ![turl[t]] = media_id[t]]
    /\ UNCHANGED <<storage_ok, initialized, cache_file, cache, turl, cached_id,
                   media_id, prev_id, tdl, tul, tprior, uploads, uploaded_for,
                   next_id, calls,
                   selVars, clientVars, projVars, credVars, endVars, extVars>>

CacheNext ==
    \/ \E t \in Tasks, u \in Urls : Resolve(t, u)
    \/ \E t \in Tasks, read_ok \in BOOLEAN : LoadFinish(t, read_ok)
    \/ \E t \in Tasks, ok \in BOOLEAN : DownloadDone(t, ok)
    \/ \E t \in Tasks, ok \in BOOLEAN : UploadDone(t, ok)
    \/ \E t \in Tasks, outcome \in WriteOutcomes : SaveFinish(t, outcome)

CacheSpecInit ==
    /\ CacheInit /\ ClientInit /\ CredAtRest /\ EndpointAtRest /\ ExtAtRest
    /\ sel_args = [model |-> "veo-3_1_fast", aspect_ratio |-> LANDSCAPE,
                   has_start_image |-> FALSE, has_end_image |-> FALSE,
                   has_reference_images |-> FALSE]
    /\ sel_ret = "unset"
    /\ projects = <<>> /\ now = 0
    /\ gpc = <<>> /\ listed = <<>> /\ latest = <<>>
    /\ creates = <<>> /\ gresult = <<>>

\* Concurrent media-id resolutions on one cache.
SpecCache == CacheSpecInit /\ [][CacheNext]_vars

\* C15: a resolution of a url the cache map already holds ends at once: no
\* download call, no upload call, the cached id returned as it is, and the
\* map and the index file left as they were.
C15_HitNoTransfer ==
    [][\A t \in Tasks, u \in Urls :
         (Resolve(t, u) /\ cache[hash_url(u)] # NoId)
         => /\ tpc'[t] = "returned"
            /\ tret'[t] = cache[hash_url(u)]
            /\ tdl'[t] = 0 /\ tul'[t] = 0
            /\ uploads' = uploads /\ next_id' = next_id
            /\ cache' = cache
            /\ file' = file]_vars

\* A task was given an id uploaded earlier in this run, without a transfer.
C15_Witness ==
    \E t \in Tasks :
        /\ tpc[t] = "returned"
        /\ cached_id[t] > PreId
        /\ tret[t] = cached_id[t]
        /\ tdl[t] = 0 /\ tul[t] = 0

\* A step in which task t's resolution returns a media id.
ResolutionReturns(t) ==
    \/ tpc[t] \notin Ready /\ tpc'[t] = "returned"
    \/ \E u \in Urls : Resolve(t, u) /\ tpc'[t] = "returned"

\* C16: a resolution that finds the url absent makes one download and one
\* upload and leaves the uploaded id in the map under the url; and every
\* resolution of the url started after a resolution stored an id for it
\* returns that id without a download or an upload.
C16_MissThenCached ==
    [][\A t \in Tasks :
         ResolutionReturns(t)
         => /\ cached_id'[t] = NoId
                 => /\ tdl'[t] = 1 /\ tul'[t] = 1
                    /\ cache'[hash_url(turl'[t])] = tret'[t]
            /\ tprior'[t] # NoId
                 => /\ tret'[t] = tprior'[t]
                    /\ tdl'[t] = 0 /\ tul'[t] = 0]_vars

\* C17: no url is uploaded more than once.
C17_UploadAtMostOnce == \A u \in Urls : uploads[u] <= 1

\* A step in which task t's call of image_upload_cache.set returns.
SetReturns(t) == tpc[t] \in {"uploading", "saving"} /\ tpc'[t] = "returned"

\* C18: when set(url, id) returns, the map gives id for the url, and so does
\* the map a fresh cache loads from the index file.
C18_RoundTripDurable ==
    [][\A t \in Tasks :
         SetReturns(t)
         => /\ cache'[hash_url(turl[t])] = media_id'[t]
            /\ LoadedMap(file', TRUE)[hash_url(turl[t])] = media_id'[t]]_vars

\* Task t is between the map update of its set and the end of its persist.
SetInFlight(t) == tpc[t] \in {"wait_save", "saving"}

\* A step in which task t's set writes the map (image_cache.py 94).
SetUpdates(t) == tpc[t] = "uploading" /\ cache' # cache

\* C19: set writes the map with the lock held, and from that write to the
\* end of its persist no other set writes the map or the file.
C19_SetUnderLock ==
    [][\A t \in Tasks :
         /\ SetUpdates(t) => lock' = t
         /\ (SetInFlight(t) /\ tpc'[t] # "returned")
              => /\ \A w \in Tasks \ {t} : ~SetUpdates(w)
                 /\ file' = file]_vars

\* C20: a get of a url that races with a set of that url in flight returns
\* the value the map held before that set or the value of that set, and the
\* value of that set only if the index file already holds it.
C20_ReaderSeesPersisted ==
    [][\A t \in Tasks, w \in Tasks :
         (/\ t # w /\ SetInFlight(w) /\ initialized
          /\ Resolve(t, turl[w]))
         => /\ cached_id'[t] \in {prev_id[w], media_id[w]}
            /\ cached_id'[t] = media_id[w]
                 => LoadedMap(file, TRUE)[hash_url(turl[w])] = media_id[w]]_vars

\* C21: once a set of a url has returned the entry stays: the map holds,
\* for the url, the id of the set that returned last, whatever gets, sets
\* and lazy initialisations run, in whatever order.
C21_EntryNeverLost ==
    \A u \in Urls :
        last_stored[u] # NoId => cache[hash_url(u)] = last_stored[u]

\* A step in which task t's lazy initialisation ends in a failure: storage
\* unavailable, or an index file that cannot be read or parsed.
InitFails(t) ==
    \/ ~initialized /\ ~storage_ok /\ \E u \in Urls : Resolve(t, u)
    \/ LoadFinish(t, FALSE)
    \/ ~Parses(file) /\ LoadFinish(t, TRUE)

\* C22: the cache initialises on the first get; a failed initialisation
\* leaves it marked initialised with an empty map and the caller goes on
\* (to the download, the url being absent); and no get or set ever fails
\* the caller: a resolution raises only out of a download or an upload.
C22_InitFailureDegrades ==
    [][\A t \in Tasks :
         /\ InitFails(t)
              => /\ initialized'
                 /\ cache' = EmptyMap
                 /\ tpc'[t] = "downloading"
         /\ (tpc[t] # "raised" /\ tpc'[t] = "raised")
              => tpc[t] \in {"downloading", "uploading"}
         /\ (~initialized /\ \E u \in Urls : Resolve(t, u))
              => initialized' \/ tpc'[t] \in {"loading", "wait_load"}]_vars

\* After a failed initialisation for lack of storage a set stored an id in
\* the map and a later get returned it.
C22_Witness ==
    /\ ~storage_ok /\ initialized /\ ~cache_file
    /\ \E t \in Tasks, w \in Tasks :
         /\ tpc[w] = "returned" /\ media_id[w] # NoId
         /\ tpc[t] = "returned" /\ cached_id[t] = media_id[w]

\* ======================================================================
\* Credential resolution: ConfigManager.get_session_token / get_csrf_token
\* (app/core/config.py) over the Env object (app/core/env.py).
\* ======================================================================

\* Longest configured or environment string the model draws.
MaxStrLen == 2

\* A string is a sequence of characters; " " stands for any whitespace
\* character and "a" for any other.
Chars == {" ", "a"}

Strings == UNION {[1..n -> Chars] : n \in 0..MaxStrLen}

RECURSIVE lstrip(_)
lstrip(str) ==
    IF str # <<>> /\ Head(str) = " " THEN lstrip(Tail(str)) ELSE str

RECURSIVE rstrip(_)
rstrip(str) ==
    IF str # <<>> /\ str[Len(str)] = " "
    THEN rstrip(SubSeq(str, 1, Len(str) - 1))
    ELSE str

\* str.strip(): leading and trailing whitespace removed.
strip(str) == rstrip(lstrip(str))

\* The keys of the [flow] section and the dictionaries it can hold.
FlowKeys == {"session_token", "csrf_token"}

FlowConfigs == UNION {[D -> Strings] : D \in SUBSET FlowKeys}

\* dict.get(key, ""): the stored value, or "" when the key is missing.
ConfigGet(key) == IF key \in DOMAIN flow_config THEN flow_config[key] ELSE <<>>

\* The properties class Env defines; each reads the variable of its own
\* name in upper case with os.getenv.
EnvProperties ==
    {"r2_endpoint_url", "r2_access_key_id", "r2_secret_access_key",
     "r2_bucket_name", "r2_public_url"}

\* The variables that would hold the environment's default credentials.
EnvNames == {"FLOW_SESSION_TOKEN", "FLOW_CSRF_TOKEN"}

Environments == UNION {[D -> Strings] : D \in SUBSET EnvNames}

EnvVarOf(kind) ==
    IF kind = "session" THEN "FLOW_SESSION_TOKEN" ELSE "FLOW_CSRF_TOKEN"

\* os.getenv(name) or "": the variable's value, "" when it is unset.
GetenvOrEmpty(name) == IF name \in DOMAIN environ THEN environ[name] ELSE <<>>

StrReturned(str) == [kind |-> "ok", value |-> str, exc |-> "none"]

ExcRaised(exc) == [kind |-> "raise", value |-> <<>>, exc |-> exc]

\* env.<prop> or "", then .strip(): attribute lookup on the Env instance
\* raises AttributeError for a name the class does not define.
EnvDefault(prop, name) ==
    IF prop \in EnvProperties
    THEN StrReturned(strip(GetenvOrEmpty(name)))
    ELSE ExcRaised("AttributeError")

\* The shared body of the two getters: the trimmed configured value when it
\* is non-empty, otherwise the trimmed value of the Env attribute.
ResolveToken(key, prop, name) ==
    LET configured == strip(ConfigGet(key))
    IN  IF configured # <<>> THEN StrReturned(configured)
        ELSE EnvDefault(prop, name)

get_session_token ==
    ResolveToken("session_token", "flow_session_token", "FLOW_SESSION_TOKEN")

get_csrf_token ==
    ResolveToken("csrf_token", "flow_csrf_token", "FLOW_CSRF_TOKEN")

CredKinds == {"session", "csrf"}

CredInit ==
    /\ flow_config \in FlowConfigs
    /\ environ \in Environments
    /\ cred_kind = "none"
    /\ cred_ret = <<>>

\* One call of a getter; the configuration and the environment are only read.
GetSessionToken ==
    /\ cred_kind' = "session"
    /\ cred_ret' = get_session_token
    /\ UNCHANGED <<flow_config, environ, selVars, clientVars, projVars, cacheVars, endVars, extVars>>

GetCsrfToken ==
    /\ cred_kind' = "csrf"
    /\ cred_ret' = get_csrf_token
    /\ UNCHANGED <<flow_config, environ, selVars, clientVars, projVars, cacheVars, endVars, extVars>>

CredNext == GetSessionToken \/ GetCsrfToken

CredSpecInit ==
    /\ CredInit /\ CacheAtRest /\ ClientInit
    /\ SelAtRest /\ ProjAtRest /\ EndpointAtRest /\ ExtAtRest

SpecCredential == CredSpecInit /\ [][CredNext]_vars

\* The value the documented precedence gives for a credential: the trimmed
\* configured value if non-empty, else the trimmed environment default.
Precedence(kind) ==
    LET key == IF kind = "session" THEN "session_token" ELSE "csrf_token"
        configured == strip(ConfigGet(key))
    IN  IF configured # <<>> THEN configured
        ELSE strip(GetenvOrEmpty(EnvVarOf(kind)))

\* C23: a credential resolution returns the trimmed configured value when
\* that is non-empty (whitespace only counts as empty), otherwise the trimmed
\* environment default, otherwise the empty string; for both credentials.
C23_ConfigOverEnvironment ==
    cred_kind \in CredKinds => cred_ret = StrReturned(Precedence(cred_kind))

\* C24: a credential resolution never ends in an error: it returns a
\* string, the empty string when nothing is configured.
C24_ResolutionNeverRaises ==
    cred_kind \in CredKinds => cred_ret.kind = "ok" /\ cred_ret.value \in Strings


\* ======================================================================
\* The API handlers of app/api/v1/videos.py: generate_video,
\* get_video_status, get_credits and generate_image, serving one request.
\* The handlers keep nothing from one request to the next.
\* ======================================================================

\* Most images one video request attaches.
MaxImages == 2

Roles == {"first_frame", "last_frame", "reference_image"}

VideoModels == {"veo-3_1_fast", "veo-3_1_relaxed", "veo-3_1_quality"}

VideoAspects == {"VIDEO_ASPECT_RATIO_LANDSCAPE", "VIDEO_ASPECT_RATIO_PORTRAIT"}

\* VideoGenerateRequest: the roles of the attached images in order, the
\* model and the aspect ratio.
VideoRequests ==
    [images : UNION {[1..n -> Roles] : n \in 0..MaxImages},
     model : VideoModels, aspect_ratio : VideoAspects]

\* ImageGenerateRequest: with or without a source image.
ImageRequests ==
    [images : {<<>>, <<"image">>},
     model : {"GEM_PIX_2"}, aspect_ratio : {"IMAGE_ASPECT_RATIO_LANDSCAPE"}]

\* The two GET endpoints carry no body.
NoBody == [images |-> <<>>, model |-> "None", aspect_ratio |-> "None"]

SUCCESSFUL == "MEDIA_GENERATION_STATUS_SUCCESSFUL"

PENDING == "MEDIA_GENERATION_STATUS_PENDING"

\* The status values of an upstream operation; "" is a missing status, and
\* the two middle ones stand for every value other than the two the code names.
OpStatuses ==
    {PENDING, "MEDIA_GENERATION_STATUS_ACTIVE",
     "MEDIA_GENERATION_STATUS_FAILED", SUCCESSFUL, ""}

\* status.lower().replace("_", " ")
LowerSpaced(status) ==
    CASE status = PENDING -> "media generation status pending"
      [] status = "MEDIA_GENERATION_STATUS_ACTIVE"
                          -> "media generation status active"
      [] status = "MEDIA_GENERATION_STATUS_FAILED"
                          -> "media generation status failed"
      [] status = SUCCESSFUL -> "media generation status successful"
      [] OTHER -> ""

FifeUrl == "fife_url"

R2Url == "r2_url"

\* What check_video_status can return: no operation, or a first operation
\* with a status and, possibly, a fifeUrl in its video metadata.
CheckResults ==
    [operations : {0}, status : {""}, fife_url : {"None"}]
    \cup [operations : {1}, status : OpStatuses, fife_url : {"None", FifeUrl}]

\* The error codes a FlowClient call raises in a GrokApiException.
ClientErrors == {"NETWORK_ERROR", "REQUEST_ERROR"}

\* The number of parameters of the FlowClient static methods the handlers
\* call first; none of them has a default.
Params == [get_access_token |-> 1, get_or_create_project |-> 1]

\* A call binds its arguments when it passes as many as there are
\* parameters; otherwise Python raises TypeError at the call.
Binds(fn, nargs) == nargs = Params[fn]

\* The arguments each handler passes to get_access_token.
TokenArgs(e) == IF e \in {"video", "image"} THEN 2 ELSE 1

\* The code of each handler's "except Exception" branch.
GenericCode(e) ==
    CASE e = "status" -> "STATUS_ERROR"
      [] e = "credits" -> "CREDITS_ERROR"
      [] OTHER -> "GENERATION_ERROR"

NoFields == {}

\* An HTTPException with an error body.
HttpError(http, code) ==
    [http |-> http, code |-> code, fields |-> {"error"},
     status |-> "None", url |-> "None"]

Proceeds == [http |-> 0, code |-> "call", fields |-> NoFields,
             status |-> "None", url |-> "None"]

\* A handler from its entry to its first awaited call: the session token,
\* the NO_SESSION_TOKEN check, for generate_video and generate_image the
\* CSRF token, then the call of get_access_token. Everything is inside the
\* handler's try, so an exception that is neither GrokApiException nor
\* HTTPException becomes a 500 with the handler's generic code.
Prologue(e) ==
    LET session == get_session_token
        csrf == get_csrf_token
    IN  IF session.kind = "raise" THEN HttpError(500, GenericCode(e))
        ELSE IF session.value = <<>> THEN HttpError(400, "NO_SESSION_TOKEN")
        ELSE IF e \in {"video", "image"} /\ csrf.kind = "raise"
             THEN HttpError(500, GenericCode(e))
        ELSE IF ~Binds("get_access_token", TokenArgs(e))
             THEN HttpError(500, GenericCode(e))
        ELSE Proceeds

\* The R2 settings the model draws: none, all but the public URL, all.
R2Settings == {{}, EnvProperties \ {"r2_public_url"}, EnvProperties}

\* The environments the handlers run in.
EndpointEnvironments ==
    {e \in Environments : \A n \in DOMAIN e : e[n] = <<"a">>}

EndpointInit ==
    /\ flow_config \in FlowConfigs
    /\ environ \in EndpointEnvironments
    /\ cred_kind = "none" /\ cred_ret = <<>>
    /\ endpoint = "none" /\ request = <<>> /\ epc = "idle"
    /\ provider_calls = <<>> /\ op_result = <<>>
    /\ r2_set \in R2Settings /\ r2_url = "None" /\ response = <<>>

\* A request arrives at handler e with body r and runs to its first await.
Enter(e, r) ==
    /\ epc = "idle"
    /\ endpoint' = e /\ request' = r
    /\ op_result' = <<>> /\ r2_url' = "None"
    /\ IF Prologue(e) = Proceeds
       THEN /\ provider_calls' = <<"get_access_token">>
            /\ epc' = "token" /\ response' = <<>>
       ELSE /\ provider_calls' = <<>>
            /\ epc' = "done" /\ response' = Prologue(e)
    /\ UNCHANGED <<r2_set, credVars, selVars, clientVars, projVars, cacheVars, extVars>>

generate_video == \E r \in VideoRequests : Enter("video", r)

generate_image == \E r \in ImageRequests : Enter("image", r)

get_video_status == Enter("status", NoBody)

get_credits == Enter("credits", NoBody)

\* get_access_token returns or raises. Only get_video_status and
\* get_credits get as far as awaiting it.
TokenDone(ok, code) ==
    /\ epc = "token" /\ endpoint \in {"status", "credits"}
    /\ IF ok
       THEN /\ provider_calls' = Append(provider_calls,
                   IF endpoint = "status" THEN "check_video_status"
                                          ELSE "get_credits")
            /\ epc' = IF endpoint = "status" THEN "check" ELSE "credits"
            /\ UNCHANGED response
       ELSE /\ epc' = "done" /\ response' = HttpError(500, code)
            /\ UNCHANGED provider_calls
    /\ UNCHANGED <<endpoint, request, op_result, r2_set, r2_url,
                   credVars, selVars, clientVars, projVars, cacheVars, extVars>>

CreditsBody ==
    [http |-> 200, code |-> "None", fields |-> {"credits", "user_paygate_tier"},
     status |-> "None", url |-> "None"]

\* FlowClient.get_credits returns or raises.
CreditsDone(ok, code) ==
    /\ epc = "credits"
    /\ epc' = "done"
    /\ response' = IF ok THEN CreditsBody ELSE HttpError(500, code)
    /\ UNCHANGED <<endpoint, request, provider_calls, op_result, r2_set,
                   r2_url, credVars, selVars, clientVars, projVars, cacheVars, extVars>>

IsSuccessfulOrFailed(status) ==
    status \in {SUCCESSFUL, "MEDIA_GENERATION_STATUS_FAILED"}

\* if status == "MEDIA_GENERATION_STATUS_SUCCESSFUL"
IsSuccessful(status) == status = SUCCESSFUL

\* The fields every status response carries.
StatusFields == {"id", "object", "status", "scene_id", "remaining_credits"}

\* The body get_video_status returns for check result res once the mirror
\* gave mirror ("None" when it gave nothing or was not tried).
StatusBody(res, mirror) ==
    [http |-> 200, code |-> "None",
     fields |-> IF IsSuccessful(res.status)
                THEN StatusFields \cup {"video"} ELSE StatusFields,
     status |-> LowerSpaced(res.status),
     url |-> IF ~IsSuccessful(res.status) THEN "None"
             ELSE IF mirror # "None" THEN mirror ELSE res.fife_url]

\* _upload_to_r2's configuration check.
R2Configured ==
    {"r2_endpoint_url", "r2_access_key_id", "r2_secret_access_key",
     "r2_public_url"} \subseteq r2_set

\* check_video_status returns res or raises. No operation is a 404; a
\* successful operation with a fifeUrl goes on to the mirror when R2 is
\* configured; every other result is answered at once.
CheckDone(ok, code, res) ==
    /\ epc = "check"
    /\ IF ~ok
       THEN /\ epc' = "done" /\ response' = HttpError(500, code)
            /\ UNCHANGED op_result
       ELSE /\ op_result' = res
            /\ IF res.operations = 0
               THEN /\ epc' = "done"
                    /\ response' = HttpError(404, "GENERATION_NOT_FOUND")
               ELSE IF IsSuccessful(res.status) /\ res.fife_url # "None"
                       /\ R2Configured
               THEN /\ epc' = "mirror_download" /\ UNCHANGED response
               ELSE /\ epc' = "done" /\ response' = StatusBody(res, "None")
    /\ UNCHANGED <<endpoint, request, provider_calls, r2_set, r2_url,
                   credVars, selVars, clientVars, projVars, cacheVars, extVars>>

\* _upload_to_r2: download_video returns or raises; a raise is caught and
\* the mirror gives None.
MirrorDownloadDone(ok) ==
    /\ epc = "mirror_download"
    /\ provider_calls' = Append(provider_calls, "download_video")
    /\ IF ok
       THEN /\ epc' = "mirror_upload" /\ UNCHANGED response
       ELSE /\ epc' = "done" /\ response' = StatusBody(op_result, "None")
    /\ UNCHANGED <<endpoint, request, op_result, r2_set, r2_url,
                   credVars, selVars, clientVars, projVars, cacheVars, extVars>>

\* _upload_to_r2: upload_fileobj returns or raises, then get_public_url;
\* a raise is caught and the mirror gives None.
MirrorUploadDone(ok) ==
    /\ epc = "mirror_upload"
    /\ r2_url' = IF ok THEN R2Url ELSE "None"
    /\ epc' = "done"
    /\ response' = StatusBody(op_result, r2_url')
    /\ UNCHANGED <<endpoint, request, provider_calls, op_result, r2_set,
                   credVars, selVars, clientVars, projVars, cacheVars, extVars>>

EndpointNext ==
    \/ generate_video
    \/ generate_image
    \/ get_video_status
    \/ get_credits
    \/ \E ok \in BOOLEAN, code \in ClientErrors : TokenDone(ok, code)
    \/ \E ok \in BOOLEAN, code \in ClientErrors : CreditsDone(ok, code)
    \/ \E ok \in BOOLEAN, code \in ClientErrors, res \in CheckResults :
           CheckDone(ok, code, res)
    \/ \E ok \in BOOLEAN : MirrorDownloadDone(ok)
    \/ \E ok \in BOOLEAN : MirrorUploadDone(ok)

EndpointSpecInit ==
    /\ EndpointInit /\ CacheAtRest /\ ClientInit
    /\ SelAtRest /\ ProjAtRest /\ ExtAtRest

SpecEndpoint == EndpointSpecInit /\ [][EndpointNext]_vars


\* The request has been answered.
Answered == epc = "done"

\* A session token is configured: the stored value is non-empty once trimmed.
SessionConfigured == strip(ConfigGet("session_token")) # <<>>

\* The answer is not the error a failed FlowClient call raised.
NoClientError == response.code \notin ClientErrors

\* C25: in every endpoint, when the resolved session token is empty the
\* request ends with NO_SESSION_TOKEN and no provider client call was issued.
C25_EmptyTokenRejected ==
    (Answered /\ Precedence("session") = <<>>)
        => /\ response = HttpError(400, "NO_SESSION_TOKEN")
           /\ provider_calls = <<>>

GenerationCalls ==
    {"generate_video_start_end", "generate_video_start",
     "generate_video_reference", "generate_video_text"}

HasRole(images, role) == \E i \in DOMAIN images : images[i] = role

\* The generation call the role precedence names for the attached images.
ChosenCall(images) ==
    IF HasRole(images, "first_frame") /\ HasRole(images, "last_frame")
    THEN "generate_video_start_end"
    ELSE IF HasRole(images, "first_frame") THEN "generate_video_start"
    ELSE IF HasRole(images, "reference_image") THEN "generate_video_reference"
    ELSE "generate_video_text"

IsGeneration(c) == c \in GenerationCalls

\* C26: a video request with a configured session token whose provider
\* calls did not fail chose exactly one of the four generation calls, the
\* one the role precedence names: start+end, else start, else reference,
\* else text-to-video.
C26_DispatchByRole ==
    (endpoint = "video" /\ Answered /\ SessionConfigured /\ NoClientError)
        => SelectSeq(provider_calls, IsGeneration)
               = <<ChosenCall(request.images)>>

FirstFrameRequest ==
    [images |-> <<"first_frame">>, model |-> "veo-3_1_fast",
     aspect_ratio |-> "VIDEO_ASPECT_RATIO_LANDSCAPE"]

\* C27: the request with one first_frame image, tier fast, landscape, with a
\* session token configured and no upstream failure, completes successfully
\* through the single-start-frame generation call.
C27_StartFrameSucceeds ==
    (endpoint = "video" /\ request = FirstFrameRequest /\ Answered
         /\ SessionConfigured /\ NoClientError)
        => /\ response.http = 200
           /\ \E i \in DOMAIN provider_calls :
                  provider_calls[i] = "generate_video_start"

\* C28: a video orchestration that ran to its end without a provider
\* failure exchanged the token first, resolved the project second, and
\* issued at most one generation call, after every other call.
C28_StepsInOrder ==
    (endpoint = "video" /\ Answered /\ SessionConfigured /\ NoClientError)
        => /\ Len(provider_calls) >= 2
           /\ provider_calls[1] = "get_access_token"
           /\ provider_calls[2] = "get_or_create_project"
           /\ Len(SelectSeq(provider_calls, IsGeneration)) <= 1
           /\ \A i \in DOMAIN provider_calls :
                  IsGeneration(provider_calls[i]) => i = Len(provider_calls)

\* C29: status polling returns the video object exactly when the status
\* of the first operation is SUCCESSFUL; every other status is answered with
\* id, status, scene id and remaining credits and no video object; no
\* operation at all is answered 404 GENERATION_NOT_FOUND.
C29_VideoIffSuccessful ==
    (endpoint = "status" /\ Answered /\ op_result # <<>>)
        => IF op_result.operations = 0
           THEN response = HttpError(404, "GENERATION_NOT_FOUND")
           ELSE /\ response.http = 200
                /\ StatusFields \subseteq response.fields
                /\ "video" \in response.fields
                       <=> op_result.status = SUCCESSFUL
                /\ response.status = LowerSpaced(op_result.status)

C29_Witness ==
    /\ endpoint = "status" /\ Answered /\ op_result # <<>>
    /\ op_result.operations = 1 /\ op_result.status = SUCCESSFUL
    /\ "video" \in response.fields

\* C30: the mirror is optional and non-fatal: status polling of a
\* successful operation and image generation with a configured session
\* token and no provider failure answer 200, with the mirror URL as url when
\* mirroring succeeded and the upstream URL otherwise.
C30_MirrorNonFatal ==
    /\ (endpoint = "status" /\ Answered /\ op_result # <<>>
            /\ op_result.operations = 1 /\ op_result.status = SUCCESSFUL)
        => /\ response.http = 200
           /\ response.url = IF r2_url # "None" THEN r2_url
                             ELSE op_result.fife_url
           /\ r2_url # "None" => R2Configured
    /\ (endpoint = "image" /\ Answered /\ SessionConfigured /\ NoClientError)
        => /\ response.http = 200
           /\ response.url \in {FifeUrl, R2Url}


\* ======================================================================
\* MIME detection of FlowClient.download_image and download_video
\* (app/services/flow/client.py), applied to a 200 response.
\* ======================================================================

\* Most 4-byte words a response body is made of.
MaxWords == 3

\* The byte strings the code compares with, and bodies built around them.
\* A body is a sequence of byte values.
JPEG_MAGIC == <<255, 216, 255>>

PNG_MAGIC == <<137, 80, 78, 71>>

RIFF == <<82, 73, 70, 70>>

WEBP == <<87, 69, 66, 80>>

WEBM == <<87, 69, 66, 77>>

MP4_MAGIC == <<0, 0, 0, 32, 102, 116, 121, 112>>

\* The 4-byte words bodies are drawn from: the magic numbers, two box
\* sizes in front of "ftyp", and a word that matches nothing.
BodyWords ==
    {<<255, 216, 255, 224>>, PNG_MAGIC, RIFF, WEBP, WEBM,
     <<0, 0, 0, 32>>, <<0, 0, 0, 24>>, <<102, 116, 121, 112>>,
     <<1, 2, 3, 4>>}

RECURSIVE Flatten(_)
Flatten(words) ==
    IF words = <<>> THEN <<>> ELSE Head(words) \o Flatten(Tail(words))

ResponseBodies == {Flatten(ws) : ws \in UNION {[1..n -> BodyWords] : n \in 0..MaxWords}}

\* content[:n]
Prefix(content, n) ==
    IF Len(content) <= n THEN content ELSE SubSeq(content, 1, n)

\* content.startswith(magic)
StartsWith(content, magic) ==
    /\ Len(content) >= Len(magic)
    /\ SubSeq(content, 1, Len(magic)) = magic

\* magic in content
Contains(content, magic) ==
    \E i \in 1..(Len(content) - Len(magic) + 1) :
        SubSeq(content, i, i + Len(magic) - 1) = magic

\* A content-type header as the sequence of its parts; NoHeader when the
\* response has none.
NoHeader == <<"absent">>

Headers ==
    {NoHeader, <<"image/", "png">>, <<"image/", "webp">>,
     <<"video/", "webm">>, <<"video/", "mp4">>, <<"text/", "html">>,
     <<"application/", "octet-stream">>,
     <<"multipart/", "related; type=", "image/", "jpeg">>}

\* response.headers.get("content-type", default)
HeaderOr(header, default) == IF header = NoHeader THEN default ELSE header

\* "image/" in content_type
Names(header, family) == \E i \in DOMAIN header : header[i] = family

IMAGE_JPEG == <<"image/", "jpeg">>

IMAGE_PNG == <<"image/", "png">>

IMAGE_WEBP == <<"image/", "webp">>

VIDEO_MP4 == <<"video/", "mp4">>

VIDEO_WEBM == <<"video/", "webm">>

\* The MIME type download_image returns for a 200 response.
ImageMime(header, body) ==
    LET content_type == HeaderOr(header, IMAGE_JPEG)
        content == Prefix(body, 10)
    IN  IF Names(content_type, "image/") THEN content_type
        ELSE IF StartsWith(content, JPEG_MAGIC) THEN IMAGE_JPEG
        ELSE IF StartsWith(content, PNG_MAGIC) THEN IMAGE_PNG
        ELSE IF StartsWith(content, RIFF) /\ Contains(content, WEBP)
             THEN IMAGE_WEBP
        ELSE IMAGE_JPEG

\* The MIME type download_video returns for a 200 response.
VideoMime(header, body) ==
    LET content_type == HeaderOr(header, VIDEO_MP4)
        content == Prefix(body, 12)
    IN  IF Names(content_type, "video/") THEN content_type
        ELSE IF StartsWith(content, MP4_MAGIC) THEN VIDEO_MP4
        ELSE IF StartsWith(content, RIFF) /\ Contains(content, WEBM)
             THEN VIDEO_WEBM
        ELSE VIDEO_MP4

DownloadInit ==
    /\ dl_kind = "none" /\ dl_mime = <<>>
    /\ dl_header \in Headers
    /\ dl_body \in ResponseBodies

download_image ==
    /\ dl_kind' = "image"
    /\ dl_mime' = ImageMime(dl_header, dl_body)
    /\ UNCHANGED <<dl_header, dl_body, oldVars, cfgVars, admVars>>

download_video ==
    /\ dl_kind' = "video"
    /\ dl_mime' = VideoMime(dl_header, dl_body)
    /\ UNCHANGED <<dl_header, dl_body, oldVars, cfgVars, admVars>>

DownloadNext == download_image \/ download_video

\* Every earlier component at rest.
OldAtRest ==
    /\ ClientInit /\ SelAtRest /\ ProjAtRest
    /\ CacheAtRest /\ CredAtRest /\ EndpointAtRest

DownloadSpecInit == DownloadInit /\ OldAtRest /\ ConfigAtRest /\ AdminAtRest

SpecDownload == DownloadSpecInit /\ [][DownloadNext]_vars

\* bytes 5..8 of the body are "ftyp"
FtypAt4(body) == Len(body) >= 8 /\ SubSeq(body, 5, 8) = <<102, 116, 121, 112>>

\* bytes 9..12 of a body that starts with "RIFF" are the given tag
RiffTagged(body, tag) ==
    /\ StartsWith(body, RIFF)
    /\ Len(body) >= 12 /\ SubSeq(body, 9, 12) = tag

\* The type the magic numbers give for an image body, JPEG when none matches.
SniffedImage(body) ==
    IF StartsWith(body, JPEG_MAGIC) THEN IMAGE_JPEG
    ELSE IF StartsWith(body, PNG_MAGIC) THEN IMAGE_PNG
    ELSE IF RiffTagged(body, WEBP) THEN IMAGE_WEBP
    ELSE IMAGE_JPEG

\* The type the magic numbers give for a video body, MP4 when none matches.
SniffedVideo(body) ==
    IF FtypAt4(body) THEN VIDEO_MP4
    ELSE IF RiffTagged(body, WEBM) THEN VIDEO_WEBM
    ELSE VIDEO_MP4

\* C31: a download returns the header's type when the header names an
\* image (resp. video) type and otherwise, an absent header included, the
\* type sniffed from the first bytes of the body, JPEG (resp. MP4) when
\* nothing matches.
C31_HeaderElseSniffed ==
    /\ dl_kind = "image" =>
           dl_mime = IF dl_header # NoHeader /\ Names(dl_header, "image/")
                     THEN dl_header ELSE SniffedImage(dl_body)
    /\ dl_kind = "video" =>
           dl_mime = IF dl_header # NoHeader /\ Names(dl_header, "video/")
                     THEN dl_header ELSE SniffedVideo(dl_body)


\* A 429 response whose body reports no resource exhaustion: no body, or a
\* JSON object without error.code 429 and error.status RESOURCE_EXHAUSTED.
Plain429(r) ==
    /\ r # Fail /\ r.status = 429
    /\ r.body \in {"empty", "json", "json_empty"}

\* C32: a video generation call does not retry a 429 response whose body
\* reports no resource exhaustion: that response is the last one the call
\* receives, and the call ends with HTTP_ERROR carrying status 429.
C32_Plain429NotRetried ==
    op \in VideoOps =>
        \A i \in DOMAIN responses :
            Plain429(responses[i])
                => /\ i = Len(responses)
                   /\ pc = "done"
                   /\ result = Raise("HTTP_ERROR", 429, "")

C32_Witness ==
    /\ op \in VideoOps /\ pc = "done"
    /\ Len(responses) = 2 /\ Len(sleeps) = 1
    /\ responses[2] = [status |-> 429, body |-> "empty"]
    /\ result.code = "HTTP_ERROR"


\* One client operation whose network attempts all return or fail and
\* whose sleeps all end.
SpecClientFair ==
    /\ Init /\ [][Next]_vars
    /\ WF_vars(\E r \in Outcomes : LoopAttempt(r))
    /\ WF_vars(Sleep)

\* The typed errors the retry loop of a video generation call raises.
LoopErrors == {"RATE_LIMIT_ERROR", "NETWORK_ERROR", "HTTP_ERROR", "REQUEST_ERROR"}

\* A video generation call made at most 3 attempts and 2 sleeps and, once
\* ended, gave the parsed response or an error with one of the codes.
EndsWithin(codes) ==
    op \in VideoOps =>
        /\ Len(responses) <= 3 /\ Len(sleeps) <= 2
        /\ pc = "done" =>
               \/ result = Returned
               \/ result.kind = "error" /\ result.code \in codes

VideoCallRunning == op \in VideoOps /\ pc # "done"

\* C38 as stated: every video generation call terminates after at most 3
\* attempts and 2 sleeps, with the parsed 200 response or with one of
\* RATE_LIMIT_ERROR, NETWORK_ERROR, HTTP_ERROR, REQUEST_ERROR.
C38_EndsWithLoopError ==
    /\ [](EndsWithin(LoopErrors))
    /\ VideoCallRunning ~> (pc = "done")

\* C38, amended: every video generation call terminates after at most 3
\* attempts and 2 sleeps, with the parsed 200 response, with one of
\* RATE_LIMIT_ERROR, NETWORK_ERROR, HTTP_ERROR, REQUEST_ERROR, or, before
\* its first attempt, with UNSUPPORTED_MODEL; it never returns nothing.
C38_VideoCallTerminates ==
    /\ [](EndsWithin(LoopErrors \cup {UNSUPPORTED_MODEL}))
    /\ [](op \in VideoOps /\ pc = "done" /\ result.code = UNSUPPORTED_MODEL
              => responses = <<>>)
    /\ VideoCallRunning ~> (pc = "done")

C38_Witness ==
    /\ op \in VideoOps /\ pc = "done"
    /\ Len(responses) = 3 /\ Len(sleeps) = 2
    /\ result = Returned


\* ======================================================================
\* Saving and reloading the settings: ConfigManager.save, _save_file,
\* _save_storage, reload and load (app/core/config.py), called by the
\* update_settings handler of concurrent admin requests.
\* ======================================================================

\* Concurrent save calls.
NumSavers == 2

Savers == 1..NumSavers

\* The session tokens an administrator saves: non-empty once trimmed.
SavedTokens == {str \in Strings : strip(str) # <<>>}

\* The [global] section is stood for by its log_level.
LogLevels == {"INFO", "DEBUG"}

\* The argument of one save call: a flow_config with a session token, or a
\* global_config.
SaveRequests ==
    [section : {"flow"}, data : {[session_token |-> x] : x \in SavedTokens}]
    \cup [section : {"global"}, data : LogLevels]

\* dict.update: the keys of data replace those of section.
DictUpdate(section, data) ==
    [k \in DOMAIN section \cup DOMAIN data |->
        IF k \in DOMAIN data THEN data[k] ELSE section[k]]

\* for section, data in updates.items(): config[section].update(data).
\* Both sections are in the file: load adds a missing one when the manager
\* is constructed.
Merged(config, upd) ==
    IF upd.section = "flow"
    THEN [config EXCEPT !.flow = DictUpdate(config.flow, upd.data)]
    ELSE [config EXCEPT !.global = upd.data]

\* The manager after construction and start-up: the file has both
\* sections, and flow_config is the file's [flow] section.
ConfigInit ==
    /\ cfg_file \in [flow : {[session_token |-> <<>>, csrf_token |-> <<>>],
                             [session_token |-> <<"a">>, csrf_token |-> <<>>]},
                     global : {"INFO"}]
    /\ flow_config = cfg_file.flow
    /\ environ = <<>> /\ cred_kind = "none" /\ cred_ret = <<>>
    /\ storage_set \in BOOLEAN
    /\ spc = [t \in Savers |-> "idle"]
    /\ supd = [t \in Savers |-> <<>>]
    /\ ssnap = [t \in Savers |-> <<>>]

\* save builds its updates and awaits the opening of the file (or the
\* backend's load_config).
SaveBegin(t, upd) ==
    /\ spc[t] = "idle"
    /\ supd' = [supd EXCEPT ![t] = upd]
    /\ spc' = [spc EXCEPT ![t] = "reading"]
    /\ UNCHANGED <<cfg_file, storage_set, ssnap, flow_config, environ,
                   cred_kind, cred_ret, selVars, clientVars, projVars,
                   cacheVars, endVars, dlVars, admVars>>

\* The stored configuration is read whole; the call then awaits the write.
SaveRead(t) ==
    /\ spc[t] = "reading"
    /\ ssnap' = [ssnap EXCEPT ![t] = cfg_file]
    /\ spc' = [spc EXCEPT ![t] = "writing"]
    /\ UNCHANGED <<cfg_file, storage_set, supd, flow_config, environ,
                   cred_kind, cred_ret, selVars, clientVars, projVars,
                   cacheVars, endVars, dlVars, admVars>>

\* The copy, with the updates merged in, is written back whole.
SaveWrite(t) ==
    /\ spc[t] = "writing"
    /\ cfg_file' = Merged(ssnap[t], supd[t])
    /\ spc' = [spc EXCEPT ![t] = "reloading"]
    /\ UNCHANGED <<storage_set, supd, ssnap, flow_config, environ,
                   cred_kind, cred_ret, selVars, clientVars, projVars,
                   cacheVars, endVars, dlVars, admVars>>

\* reload: flow_config becomes the [flow] section of the file; save returns.
SaveReload(t) ==
    /\ spc[t] = "reloading"
    /\ flow_config' = cfg_file.flow
    /\ spc' = [spc EXCEPT ![t] = "returned"]
    /\ UNCHANGED <<cfg_file, storage_set, supd, ssnap, environ,
                   cred_kind, cred_ret, selVars, clientVars, projVars,
                   cacheVars, endVars, dlVars, admVars>>

ConfigNext ==
    \E t \in Savers :
        \/ \E upd \in SaveRequests : SaveBegin(t, upd)
        \/ SaveRead(t)
        \/ SaveWrite(t)
        \/ SaveReload(t)

ConfigSpecInit ==
    /\ ConfigInit /\ ClientInit /\ SelAtRest /\ ProjAtRest
    /\ CacheAtRest /\ EndpointAtRest /\ DownloadAtRest /\ AdminAtRest

SpecConfig == ConfigSpecInit /\ [][ConfigNext]_vars

\* Save call t set the session token and has returned.
TokenSaved(t) == spc[t] = "returned" /\ supd[t].section = "flow"

\* No call but t has been given a session token to save.
OnlyTokenSave(t) ==
    \A o \in Savers \ {t} : spc[o] = "idle" \/ supd[o].section = "global"

\* C33: once save(flow_config = {session_token: X}) has returned, and no
\* other call saved a session token, get_session_token() returns X trimmed,
\* with and without a storage backend.
C33_SavedTokenResolved ==
    \A t \in Savers :
        (TokenSaved(t) /\ OnlyTokenSave(t))
            => get_session_token = StrReturned(strip(supd[t].data.session_token))


\* ------------------------------------------------------------------
\* Tier restriction and image roles of the video orchestrator
\* (videos.py 208-272).

QualityWithReferences(r) ==
    r.model = "veo-3_1_quality" /\ HasRole(r.images, "reference_image")

\* C34: a video request of tier quality that carries reference images, with
\* a session token configured and no provider failure, is answered
\* UNSUPPORTED_MODEL exactly when it carries no first_frame; with a
\* first_frame it is dispatched to the start (or start+end) call.
C34_QualityReferencesNeedFirstFrame ==
    (endpoint = "video" /\ Answered /\ SessionConfigured /\ NoClientError
         /\ QualityWithReferences(request))
        => IF HasRole(request.images, "first_frame")
           THEN SelectSeq(provider_calls, IsGeneration)
                    \in {<<"generate_video_start">>,
                         <<"generate_video_start_end">>}
           ELSE /\ response.code = "UNSUPPORTED_MODEL"
                /\ SelectSeq(provider_calls, IsGeneration) = <<>>

IsMediaResolution(c) == c = "get_or_upload_media_id"

\* C35: a video request with a session token configured and no provider
\* failure resolves every attached image to a media id whatever its role,
\* and a last_frame without a first_frame does not influence the dispatch:
\* the reference call is chosen when references exist, else the text call.
C35_EveryImageResolved ==
    (endpoint = "video" /\ Answered /\ SessionConfigured /\ NoClientError)
        => /\ Len(SelectSeq(provider_calls, IsMediaResolution))
                  = Len(request.images)
           /\ (HasRole(request.images, "last_frame")
                   /\ ~HasRole(request.images, "first_frame")
                   /\ request.model # "veo-3_1_quality")
                  => SelectSeq(provider_calls, IsGeneration)
                         = <<IF HasRole(request.images, "reference_image")
                             THEN "generate_video_reference"
                             ELSE "generate_video_text">>


\* ------------------------------------------------------------------
\* Failed transfers and the content of the upload cache
\* (videos.py 71-100, image_cache.py 88-96).

\* The download or the upload of task t fails.
TransferFails(t) == DownloadDone(t, FALSE) \/ UploadDone(t, FALSE)

ObtainedFor(id, u) ==
    \/ uploaded_for[id] = u
    \/ id = PreId /\ u = "u1"

\* Tasks t and w both uploaded url u, both resolutions have returned, and
\* no other set of u is still in flight.
BothUploaded(t, w, u) ==
    /\ t # w /\ turl[t] = u /\ turl[w] = u
    /\ tpc[t] = "returned" /\ tpc[w] = "returned"
    /\ media_id[t] # NoId /\ media_id[w] # NoId
    /\ \A x \in Tasks : SetInFlight(x) => turl[x] # u

\* Every id the map holds stands there for its own url.
EntriesObtainedForUrl ==
    \A u \in Urls :
        cache[hash_url(u)] # NoId => ObtainedFor(cache[hash_url(u)], u)

SESSION_EXPIRE_HOURS == 24

\* Most tokens issued in a run.
MaxTokens == 2

\* secrets.token_urlsafe(32): the tokens in the order they are produced,
\* each one new.
Tokens  == 1..MaxTokens
NoToken == 0
NoTime  == 0 - 1
\* Two requests are in flight at a time.
Threads == {1, 2}

\* The clock is read every half session lifetime, until the first session
\* is over.
TickHours == SESSION_EXPIRE_HOURS \div 2
MaxWall == SESSION_EXPIRE_HOURS + TickHours

\* config.py 17-22, and a [global] section without the two keys.
DEFAULT_GLOBAL ==
    [admin_username |-> "admin", admin_password |-> "admin"]
GlobalConfigs == {DEFAULT_GLOBAL, <<>>}
LoginStrings == {"admin", ""}

\* dict.get(key, default)
GetOr(d, key, default) == IF key \in DOMAIN d THEN d[key] ELSE default

\* The Authorization header: absent, empty, or a scheme and a token.
NoAuth == <<"absent">>
Authorizations ==
    {NoAuth, <<"Basic ", 1>>} \cup {<<"Bearer ", k>> : k \in Tokens}

\* line 22: authorization and authorization.startswith("Bearer ")
HasBearer(a) == a # NoAuth /\ a # <<>> /\ a[1] = "Bearer "
\* line 25: authorization[7:]
TokenOf(a) == a[2]

\* Faulty variant: a session that is over at its expiry time.
ExpiredEarly(t, expiry) == t >= expiry

\* line 30: datetime.now() > _sessions[token]
Expired(t, expiry) == t > expiry

\* Faulty variant: a del that leaves the entry.
WithoutNothing(d, k) == d

\* del d[k]
Without(d, k) == [x \in DOMAIN d \ {k} |-> d[x]]

Accepted == [http |-> 200, code |-> "True"]
Http401(code) == [http |-> 401, code |-> code]
\* An exception no handler catches: the framework answers 500.
Unhandled(exc) == [http |-> 500, code |-> exc]
LogoutBody(success) == [http |-> 200, code |-> success]

\* What the calls give.  The last one is kept.
NoCall ==
    [op |-> "none", auth |-> NoAuth, token |-> NoToken, late |-> FALSE,
     result |-> [http |-> 0, code |-> "none"]]
LoginResponse(success, token) ==
    [op |-> "login", auth |-> NoAuth, token |-> token, late |-> FALSE,
     result |-> [http |-> 200, code |-> IF success THEN "True" ELSE "False"]]
LogoutResponse(a, r) ==
    [op |-> "logout", auth |-> a, token |-> NoToken, late |-> FALSE,
     result |-> r]

AdminInit ==
    /\ global_config \in GlobalConfigs
    /\ sessions = <<>> /\ wall = 0 /\ minted = 0
    /\ login_time = [k \in Tokens |-> NoTime]
    /\ logged_out = {} /\ found_expired = {}
    /\ vpc = [th \in Threads |-> "idle"]
    /\ vop = [th \in Threads |-> "settings"]
    /\ vauth = [th \in Threads |-> NoAuth]
    /\ vlate = [th \in Threads |-> FALSE]
    /\ admin_ret = NoCall

\* datetime.now() moves on.
Tick ==
    /\ wall + TickHours <= MaxWall
    /\ wall' = wall + TickHours
    /\ UNCHANGED <<global_config, sessions, minted, login_time, logged_out,
                   found_expired, vpc, vop, vauth, vlate, admin_ret,
                   oldVars, dlVars, cfgVars>>

\* lines 59-80
admin_login(username, password) ==
    LET expected_user == GetOr(global_config, "admin_username", "")
        expected_pass == GetOr(global_config, "admin_password", "")
        session_token == minted + 1
    IN  /\ IF username # expected_user \/ password # expected_pass
           THEN /\ admin_ret' = LoginResponse(FALSE, NoToken)
                /\ UNCHANGED <<sessions, minted, login_time>>
           ELSE /\ minted < MaxTokens
                /\ minted' = session_token
                /\ sessions' = sessions @@
                       (session_token :> wall + SESSION_EXPIRE_HOURS)
                /\ login_time' = [login_time EXCEPT ![session_token] = wall]
                /\ admin_ret' = LoginResponse(TRUE, session_token)
        /\ UNCHANGED <<global_config, wall, logged_out, found_expired, vpc,
                       vop, vauth, vlate, oldVars, dlVars, cfgVars>>

\* The request of thread th is over: what it held is dropped.
Idle(f, th, v) == [f EXCEPT ![th] = v]
Ended(th) ==
    /\ vpc' = Idle(vpc, th, "idle")
    /\ vop' = Idle(vop, th, "settings")
    /\ vauth' = Idle(vauth, th, NoAuth)
    /\ vlate' = Idle(vlate, th, FALSE)

\* verify_admin_session of thread th ends with result r.
Verified(th, a, late, r) ==
    [op |-> "verify", auth |-> a, token |-> NoToken, late |-> late,
     result |-> r]

\* A request with Authorization header a arrives at an endpoint that depends
\* on verify_admin_session, which runs lines 22-28: the header test and the
\* membership test.
VerifyBegin(th, e, a) ==
    LET late == HasBearer(a) /\ TokenOf(a) \in logged_out \cup found_expired
    IN
    /\ vpc[th] = "idle"
    /\ \A w \in Threads : w < th => vpc[w] # "idle"
    /\ IF ~HasBearer(a)
       THEN /\ admin_ret' = Verified(th, a, late, Http401("UNAUTHORIZED"))
            /\ UNCHANGED <<vpc, vop, vauth, vlate>>
       ELSE IF TokenOf(a) \notin DOMAIN sessions
       THEN /\ admin_ret' = Verified(th, a, late, Http401("SESSION_INVALID"))
            /\ UNCHANGED <<vpc, vop, vauth, vlate>>
       ELSE /\ vpc' = [vpc EXCEPT ![th] = "member"]
            /\ vop' = [vop EXCEPT ![th] = e]
            /\ vauth' = [vauth EXCEPT ![th] = a]
            /\ vlate' = [vlate EXCEPT ![th] = late]
            /\ UNCHANGED admin_ret
    /\ UNCHANGED <<global_config, sessions, wall, minted, login_time,
                   logged_out, found_expired,
                   oldVars, dlVars, cfgVars>>

\* line 30: the entry is read and compared with the clock; line 34.
VerifyCompare(th) ==
    LET token == TokenOf(vauth[th]) IN
    /\ vpc[th] = "member"
    /\ IF token \notin DOMAIN sessions
       THEN /\ admin_ret' = Verified(th, vauth[th], vlate[th],
                                      Unhandled("KeyError"))
            /\ Ended(th)
       ELSE IF Expired(wall, sessions[token])
       THEN /\ vpc' = [vpc EXCEPT ![th] = "expired"]
            /\ UNCHANGED <<vop, vauth, vlate, admin_ret>>
       ELSE /\ admin_ret' = Verified(th, vauth[th], vlate[th], Accepted)
            /\ IF vop[th] = "logout"
               THEN /\ vpc' = [vpc EXCEPT ![th] = "handler"]
                    /\ UNCHANGED <<vop, vauth, vlate>>
               ELSE Ended(th)
    /\ UNCHANGED <<global_config, sessions, wall, minted, login_time,
                   logged_out, found_expired,
                   oldVars, dlVars, cfgVars>>

\* lines 31-32: the expired entry is deleted and 401 raised.
VerifyDelete(th) ==
    LET token == TokenOf(vauth[th]) IN
    /\ vpc[th] = "expired"
    /\ Ended(th)
    /\ IF token \in DOMAIN sessions
       THEN /\ sessions' = Without(sessions, token)
            /\ found_expired' = found_expired \cup {token}
            /\ admin_ret' = Verified(th, vauth[th], vlate[th],
                                      Http401("SESSION_EXPIRED"))
       ELSE /\ admin_ret' = Verified(th, vauth[th], vlate[th],
                                      Unhandled("KeyError"))
            /\ UNCHANGED <<sessions, found_expired>>
    /\ UNCHANGED <<global_config, wall, minted, login_time, logged_out,
                   oldVars, dlVars, cfgVars>>

\* admin_logout, lines 92-94 and 99: the membership test of the handler.
LogoutCheck(th) ==
    /\ vpc[th] = "handler"
    /\ IF TokenOf(vauth[th]) \in DOMAIN sessions
       THEN /\ vpc' = [vpc EXCEPT ![th] = "deleting"]
            /\ UNCHANGED <<vop, vauth, vlate, admin_ret>>
       ELSE /\ Ended(th)
            /\ admin_ret' = LogoutResponse(vauth[th], LogoutBody("False"))
    /\ UNCHANGED <<global_config, sessions, wall, minted, login_time,
                   logged_out, found_expired,
                   oldVars, dlVars, cfgVars>>

\* admin_logout, lines 95-97: the entry is deleted.
LogoutDelete(th) ==
    LET token == TokenOf(vauth[th]) IN
    /\ vpc[th] = "deleting"
    /\ Ended(th)
    /\ IF token \in DOMAIN sessions
       THEN /\ sessions' = Without(sessions, token)
            /\ logged_out' = logged_out \cup {token}
            /\ admin_ret' = LogoutResponse(vauth[th], LogoutBody("True"))
       ELSE /\ admin_ret' = LogoutResponse(vauth[th], Unhandled("KeyError"))
            /\ UNCHANGED <<sessions, logged_out>>
    /\ UNCHANGED <<global_config, wall, minted, login_time, found_expired,
                   oldVars, dlVars, cfgVars>>

AdminNext ==
    \/ Tick
    \/ \E username \in LoginStrings, password \in LoginStrings :
           admin_login(username, password)
    \/ \E th \in Threads, e \in {"logout", "settings"}, a \in Authorizations :
           VerifyBegin(th, e, a)
    \/ \E th \in Threads : VerifyCompare(th)
    \/ \E th \in Threads : VerifyDelete(th)
    \/ \E th \in Threads : LogoutCheck(th)
    \/ \E th \in Threads : LogoutDelete(th)

AdminSpecInit == AdminInit /\ OldAtRest /\ DownloadAtRest /\ ConfigAtRest

SpecAdmin == AdminSpecInit /\ [][AdminNext]_vars


\* A step in which verify_admin_session returns True to thread th.
Accepts(th) ==
    /\ vpc[th] = "member" /\ vpc'[th] \in {"idle", "handler"}
    /\ admin_ret'.op = "verify" /\ admin_ret'.result = Accepted

\* The token of thread th was issued by a successful login, has not been
\* logged out, and the clock is not past its expiry, login time + 24 hours.
LiveSession(th) ==
    LET token == TokenOf(vauth[th]) IN
    /\ HasBearer(vauth[th])
    /\ login_time[token] # NoTime
    /\ token \notin logged_out
    /\ wall <= login_time[token] + SESSION_EXPIRE_HOURS

AcceptsOnlyLiveSessions == \A th \in Threads : Accepts(th) => LiveSession(th)

\* A step in which admin_login answers success = False.
LoginFails ==
    /\ admin_ret' # admin_ret
    /\ admin_ret'.op = "login" /\ admin_ret'.result.code = "False"

FailedLoginIssuesNothing ==
    LoginFails => /\ admin_ret'.token = NoToken
                  /\ sessions' = sessions /\ minted' = minted

\* verify_admin_session ended by returning True or by raising 401.
TrueOr401 ==
    admin_ret'.op = "verify"
        => \/ admin_ret'.result = Accepted
           \/ admin_ret'.result.http = 401

\* C39: verify_admin_session accepts a bearer token only if a successful
\* admin_login issued it, it has not been logged out and the clock is not
\* later than its expiry (login time + 24 hours); in every other case it
\* raises 401; and a failed login issues no token and leaves the session
\* store unchanged.
C39_AcceptsOnlyLiveSessions ==
    [][AcceptsOnlyLiveSessions /\ TrueOr401 /\ FailedLoginIssuesNothing]_vars

\* The parts of C39 that do not depend on the status of a refusal.
AcceptanceAndFailedLogin ==
    [][AcceptsOnlyLiveSessions /\ FailedLoginIssuesNothing]_vars

Revoked == logged_out \cup found_expired

\* C40: revocation is permanent: a token that was logged out, or that
\* verify_admin_session found expired and removed, is never in the session
\* store again, and no verification that begins later accepts it, whatever
\* logins, logouts and verifications follow.
C40_RevocationPermanent ==
    /\ \A k \in Revoked : k \notin DOMAIN sessions
    /\ (admin_ret.op = "verify" /\ admin_ret.late)
           => admin_ret.result = Http401("SESSION_INVALID")

\* A revoked token was presented and refused after every token of the run
\* had been issued, one of them still in the store.
C40_Witness ==
    /\ admin_ret.op = "verify" /\ admin_ret.late
    /\ admin_ret.result = Http401("SESSION_INVALID")
    /\ minted = MaxTokens /\ DOMAIN sessions # {}
    /\ logged_out # {}

====
